---- MODULE Spec2Model ----
(***************************************************************************)
(* Model of the AI-assistant orchestration layer of whatsapp-web.js:       *)
(* AIAssistant (threads working set, middleware, handoff state machine,    *)
(* processMessage), Thread (ask, history bound) and MemoryThreadStorage.   *)
(*                                                                         *)
(* Every async function is cut at its awaits: a process sits at a label    *)
(* (the await it is suspended on) and one action runs the code from that   *)
(* await to the next one.  Code that runs synchronously across function    *)
(* boundaries (the start of an async callee) is part of the same action.   *)
(* JavaScript objects that are shared by reference (Thread objects, the    *)
(* history arrays) live in a heap (objs, arrs); unreachable ones are       *)
(* dropped after every step.                                               *)
(***************************************************************************)
EXTENDS Integers, Sequences, FiniteSets, TLC

(* ------------------------------ bounds -------------------------------- *)
\* concurrent calls in flight (Spec)
NumProcs == 2
\* calls started in one behaviour of Spec
MaxCalls == 2
\* calls started in one behaviour of SpecSeq (one call at a time)
MaxSeqCalls == 3
\* restarts of the assistant in one behaviour of SpecRestart
MaxRestarts == 1
\* calls of handoffToHuman and releaseToAI in SpecRelease
MaxReleaseCalls == 4
\* calls of handoffToHuman and releaseToAI in SpecOutage
MaxOutageCalls == 3
\* characters of the enumerated messages of SpecParse
MaxMsgLen == 4
\* calls started in one behaviour of SpecHist (one chat, one call at a time)
MaxHistCalls == 12
\* calls started in one behaviour of SpecMw
MaxMwCalls == 2
\* last clock value (Date.now() starts at 1) in Spec, SpecSeq and SpecDispatch
MaxTime == 2
\* last clock value in the specifications where snapshots can expire
MaxClock == 4
\* options.maxThreads of the assistant of SpecLru
LruMaxThreads == 2
\* calls started in one behaviour of SpecLru
MaxLruCalls == 4
\* calls started in one behaviour of SpecLruRace
MaxRaceCalls == 3
\* calls started in one behaviour of SpecCtor
MaxCtorCalls == 2
\* calls started in one behaviour of SpecLoop
MaxLoopCalls == 2
\* function calls the provider requests within one ask (SpecLoop)
MaxFnCalls == 2
\* adapter calls in one behaviour of SpecStore
MaxStoreCalls == 3
\* options.maxThreads of the modelled assistant
MaxThreads == 1
\* options.ttl of the modelled assistant, in clock units
Ttl == 2
\* middleware steps registered with use()
MaxMiddleware == 3

(* ------------------------- program constants -------------------------- *)
HistoryLimit == 20

Chats == {"c1", "c2"}
Procs == 1..NumProcs

(* ------------------------------- texts -------------------------------- *)
(* A text is a sequence of tokens; a token stands for its literal          *)
(* characters.  SP and NL are single whitespace characters, the tag and    *)
(* keyword tokens are the literals the code searches for, every other      *)
(* token is a run of non-blank characters that contains none of them.      *)
SP == " "
NL == "\n"
NullText == <<"<null>">>
UndefinedText == <<"<undefined>">>
EmptyText == <<>>

IsSpace(t) == t \in {SP, NL}

\* String.prototype.toLowerCase on one token
ToLowerCase(t) ==
    CASE t = "#HUMAN" -> "#human"
      [] t = "#Agent" -> "#agent"
      [] t = "#HandOff" -> "#handoff"
      [] t = "HANDOFF" -> "handoff"
      [] t = "Human Needed" -> "human needed"
      [] OTHER -> t

UserTags == {"#handoff", "#human", "#agent"}
AiKeywords == {"handoff", "human needed"}

\* a truthy JavaScript string (non-empty, not null/undefined)
Truthy(s) == s # EmptyText /\ s # NullText /\ s # UndefinedText

SubSeqFrom(s, i) == SubSeq(s, i, Len(s))

\* index of the first token at or after i that satisfies P, or Len(s)+1
RECURSIVE FirstNewline(_, _)
FirstNewline(s, i) ==
    IF i > Len(s) THEN Len(s) + 1
    ELSE IF s[i] = NL THEN i ELSE FirstNewline(s, i + 1)

RECURSIVE FirstCloser(_, _)
FirstCloser(s, i) ==
    IF i > Len(s) THEN Len(s) + 1
    ELSE IF s[i] = "]" THEN i ELSE FirstCloser(s, i + 1)

\* end of the run of whitespace that starts at i (index after the run)
RECURSIVE SkipSpace(_, _)
SkipSpace(s, i) ==
    IF i <= Len(s) /\ IsSpace(s[i]) THEN SkipSpace(s, i + 1) ELSE i

\* message.toLowerCase().includes('#handoff') || ... '#human' || ... '#agent'
HasUserTag(message) ==
    \E i \in 1..Len(message) : ToLowerCase(message[i]) \in UserTags

\* message.match(/#(handoff|human|agent)\s+(.+)/i): group 2 of the leftmost
\* match, or NullText when there is no match.  At a tag at position i the
\* pattern matches when whitespace follows and, giving back whitespace from
\* the right (\s+ is greedy), some character other than a newline follows.
UserTagMatchAt(message, i) ==
    LET e  == SkipSpace(message, i + 1)
        \* candidate starts of group 2, tried from the right
        ks == {k \in (i + 2)..e : k <= Len(message) /\ message[k] # NL}
    IN  IF i + 1 > Len(message) \/ ~IsSpace(message[i + 1]) \/ ks = {}
        THEN NullText
        ELSE LET k == CHOOSE x \in ks : \A y \in ks : y <= x
             IN  SubSeq(message, k, FirstNewline(message, k) - 1)

\* faulty variant: the pattern without its i flag
UserTagReasonCaseSensitive(message) ==
    LET hits == {i \in 1..Len(message) :
                    /\ message[i] \in UserTags
                    /\ UserTagMatchAt(message, i) # NullText}
    IN  IF hits = {} THEN <<"User requested human assistance">>
        ELSE UserTagMatchAt(message, CHOOSE i \in hits : \A j \in hits : i <= j)

UserTagReason(message) ==
    LET hits == {i \in 1..Len(message) :
                    /\ ToLowerCase(message[i]) \in UserTags
                    /\ UserTagMatchAt(message, i) # NullText}
    IN  IF hits = {} THEN <<"User requested human assistance">>
        ELSE UserTagMatchAt(message, CHOOSE i \in hits : \A j \in hits : i <= j)

\* response.toLowerCase().includes('[handoff]') || ... '[human needed]'
HasAiTag(response) ==
    \E i \in 1..Len(response) :
        /\ response[i] = "["
        /\ i + 2 <= Len(response)
        /\ ToLowerCase(response[i + 1]) \in AiKeywords
        /\ response[i + 2] = "]"

\* a match of /\[(handoff|human needed)[^\]]*\]/i starts at i
AiTagAt(response, i) ==
    /\ response[i] = "["
    /\ i + 1 <= Len(response)
    /\ ToLowerCase(response[i + 1]) \in AiKeywords
    /\ FirstCloser(response, i + 2) <= Len(response)

\* response.match(/\[(handoff|human needed)\s*:?\s*([^\]]+)\]/i): group 2
\* of the match at i.  body is what stands between the keyword and the
\* closing bracket; group 2 is body without its leading blanks, optional
\* colon and blanks, or the last character of body when that leaves nothing.
AiTagMatchAt(response, i) ==
    LET c    == FirstCloser(response, i + 2)
        body == SubSeq(response, i + 2, c - 1)
        a    == SkipSpace(body, 1)
        b    == IF a <= Len(body) /\ body[a] = ":" THEN a + 1 ELSE a
        d    == SkipSpace(body, b)
    IN  IF ~AiTagAt(response, i) \/ body = <<>> THEN NullText
        ELSE IF d <= Len(body) THEN SubSeqFrom(body, d)
        ELSE <<body[Len(body)]>>

AiTagReason(response) ==
    LET hits == {i \in 1..Len(response) :
                    AiTagAt(response, i) /\ AiTagMatchAt(response, i) # NullText}
    IN  IF hits = {} THEN <<"AI requested human assistance">>
        ELSE AiTagMatchAt(response, CHOOSE i \in hits : \A j \in hits : i <= j)

\* response.replace(/\[(handoff|human needed)[^\]]*\]/gi, '')
RECURSIVE StripAiTags(_, _)
StripAiTags(response, i) ==
    IF i > Len(response) THEN <<>>
    ELSE IF AiTagAt(response, i)
         THEN StripAiTags(response, FirstCloser(response, i + 2) + 1)
         ELSE <<response[i]>> \o StripAiTags(response, i + 1)

\* String.prototype.trim
RECURSIVE Trim(_)
Trim(s) ==
    IF s = <<>> THEN s
    ELSE IF IsSpace(s[1]) THEN Trim(Tail(s))
    ELSE IF IsSpace(s[Len(s)]) THEN Trim(SubSeq(s, 1, Len(s) - 1))
    ELSE s

CleanResponse(response) == Trim(StripAiTags(response, 1))

TransferMessage == <<"I'm transferring you to a human agent who will assist you shortly.">>
ApologyMessage == <<"I'm having trouble processing your request. I'm transferring you to a human agent who will assist you shortly.">>
HumanModeError == <<"Cannot use AI to respond while in human mode. Use releaseToAI first or set ignoreHandoffState option.">>

(* ------------------------------- state -------------------------------- *)
VARIABLES
    handoffState,   \* AIAssistant._handoffState: Map chatId -> HandoffState
    threads,        \* AIAssistant._threads: Map chatId -> Thread (object id)
    objs,           \* heap of Thread objects: id -> [chatId, context, history, lastUsed]
    arrs,           \* heap of history arrays: id -> sequence of {role, content}
    storage,        \* MemoryThreadStorage._threads: Map chatId -> threadData
    humanHandlers,  \* AIAssistant._humanHandlers
    middleware,     \* AIAssistant._middleware
    stats,          \* AIAssistant._stats (requests, errors)
    now,            \* Date.now()
    procs,          \* the calls in flight: label, call stack, locals, outcome
    started,        \* number of calls started so far
    functions,      \* AIAssistant._functions: Map name -> function
    adapter,        \* the provider name given to ThreadStorage.create
    saved,          \* chatId -> the threadData last passed to the adapter's saveThread
    lastGet,        \* the last call of the adapter's getThread and what it returned
    config,         \* AIAssistant.config.provider, AIAssistant.memory.maxThreads and
                    \* how far the constructor got
    storageUp,      \* the storage backend answers (a save or a load rejects when not)
    parser          \* the last TemplateParser.parseMessage call: its arguments and result

vars == <<handoffState, threads, objs, arrs, storage, humanHandlers, middleware,
          stats, now, procs, started, functions, adapter, saved, lastGet,
                   config, storageUp, parser>>

(* --------------------------- JavaScript Map --------------------------- *)
(* A Map is the sequence of its entries in insertion order.                *)
MapHas(m, k) == \E i \in 1..Len(m) : m[i].key = k
MapGet(m, k) == m[CHOOSE i \in 1..Len(m) : m[i].key = k].value
MapSet(m, k, v) ==
    IF MapHas(m, k)
    THEN [i \in 1..Len(m) |-> IF m[i].key = k THEN [key |-> k, value |-> v] ELSE m[i]]
    ELSE Append(m, [key |-> k, value |-> v])
RECURSIVE MapDelete(_, _)
MapDelete(m, k) ==
    IF m = <<>> THEN <<>>
    ELSE IF Head(m).key = k THEN MapDelete(Tail(m), k)
    ELSE <<Head(m)>> \o MapDelete(Tail(m), k)
MapKeys(m) == {m[i].key : i \in 1..Len(m)}

\* obj[key] = value on a plain object
ObjSet(o, k, v) == [x \in DOMAIN o \cup {k} |-> IF x = k THEN v ELSE o[x]]
EmptyObject == <<>>

(* -------------------------------- heap -------------------------------- *)
NewId(heap) ==
    CHOOSE i \in 1..(Cardinality(DOMAIN heap) + 1) :
        i \notin DOMAIN heap /\ \A j \in 1..(i - 1) : j \in DOMAIN heap
Alloc(heap, v) == [i \in DOMAIN heap \cup {NewId(heap)} |-> IF i \in DOMAIN heap THEN heap[i] ELSE v]

(* ------------------------------ processes ----------------------------- *)
NoOptions == [ignoreHandoffState |-> FALSE, fallbackResponse |-> UndefinedText,
              handoffOnError |-> FALSE, fallbackProvider |-> "undefined"]
NoResult == [kind |-> "none"]
IdleProc == [pc |-> "idle", ret |-> <<>>, op |-> "none", chatId |-> "c1",
             message |-> EmptyText, options |-> NoOptions,
             reason |-> EmptyText, metadata |-> EmptyObject, summary |-> EmptyText,
             thread |-> 0, rejected |-> FALSE, evq |-> <<>>, evcur |-> <<>>, data |-> <<>>,
             hstate |-> EmptyObject, clean |-> EmptyText,
             response |-> NullText, error |-> NullText,
             result |-> NoResult, backendCalls |-> 0, notes |-> <<>>, mwRan |-> <<>>,
             mwAfter |-> <<>>, mwSeen |-> <<>>, systemPrompt |-> EmptyObject, copied |-> <<>>,
             fnResult |-> <<>>, calls |-> <<>>, fnLog |-> <<>>, fallback |-> "none",
             provider |-> "none", answer |-> NullText, caught |-> FALSE, id |-> 0,
             pre |-> [human |-> FALSE, now |-> 0, handoffState |-> UndefinedText]]

\* the mutable program state a step works on
World == [handoffState |-> handoffState, threads |-> threads, objs |-> objs,
          arrs |-> arrs, storage |-> storage, stats |-> stats, procs |-> procs]

\* isInHumanMode(chatId)
IsInHumanModeIn(hs, chatId) == MapHas(hs, chatId) /\ MapGet(hs, chatId).isHumanMode
isInHumanMode(chatId) == IsInHumanModeIn(handoffState, chatId)

\* this._handoffState.get(chatId): undefined when there is no entry
HandoffStateGet(hs, chatId) == IF MapHas(hs, chatId) THEN MapGet(hs, chatId) ELSE UndefinedText

(* ---------------------- returning and throwing ------------------------ *)
\* the async function at the top of p's stack returns: its caller resumes
\* at the frame's label in a later step, or the call is over
Finished(pr, res) ==
    [IdleProc EXCEPT !.pc = "done", !.op = pr.op, !.chatId = pr.chatId,
                     !.message = pr.message, !.options = pr.options,
                     !.reason = pr.reason, !.metadata = pr.metadata,
                     !.summary = pr.summary, !.result = res,
                     !.backendCalls = pr.backendCalls, !.notes = pr.notes,
                     !.mwRan = pr.mwRan, !.mwAfter = pr.mwAfter,
                     !.mwSeen = pr.mwSeen,
                     !.calls = pr.calls, !.fnLog = pr.fnLog, !.fallback = pr.fallback,
                     !.provider = pr.provider,
                     !.answer = pr.answer, !.caught = pr.caught,
                     !.id = pr.id, !.pre = pr.pre]

Return(w, p, value) ==
    LET pr == w.procs[p]
    IN  IF pr.ret = <<>>
        THEN [w EXCEPT !.procs[p] = Finished(pr, [kind |-> "return", value |-> value])]
        ELSE [w EXCEPT !.procs[p].pc = Head(pr.ret).lbl, !.procs[p].ret = Tail(pr.ret)]

\* the async function at the top of p's stack rejects: the innermost caller
\* that awaits it inside a try block resumes in its catch block, or the call
\* is over with the error
RECURSIVE Unwind(_)
Unwind(frames) ==
    IF frames = <<>> THEN <<>>
    ELSE IF Head(frames).catch # "none" THEN frames
    ELSE Unwind(Tail(frames))

Raise(w, p, err) ==
    LET pr == w.procs[p]
        fr == Unwind(pr.ret)
    IN  IF fr = <<>>
        THEN [w EXCEPT !.procs[p] = Finished(pr, [kind |-> "throw", value |-> err])]
        ELSE [w EXCEPT !.procs[p].pc = Head(fr).catch, !.procs[p].ret = Tail(fr),
                       !.procs[p].error = err]

Push(w, p, lbl, catch) ==
    [w EXCEPT !.procs[p].ret = <<[lbl |-> lbl, catch |-> catch]>> \o @]

(* ------------------------ MemoryThreadStorage ------------------------- *)
\* MemoryThreadStorage.saveThread(threadData)
StorageSaveThread(st, threadData) == MapSet(st, threadData.chatId, threadData)

\* MemoryThreadStorage.deleteThread(chatId)
StorageDeleteThread(st, chatId) == MapDelete(st, chatId)

\* MemoryThreadStorage.getThread(chatId): the new store and what is returned
\* (<<>> for null, <<threadData>> otherwise)
StorageExpired(threadData) == Ttl # 0 /\ now - threadData.lastUsed > Ttl
\* faulty variant: a read removes the snapshot it returns
StorageGetThreadConsumes(st, chatId) ==
    IF ~MapHas(st, chatId) THEN [storage |-> st, data |-> <<>>]
    ELSE IF StorageExpired(MapGet(st, chatId))
         THEN [storage |-> MapDelete(st, chatId), data |-> <<>>]
         ELSE [storage |-> MapDelete(st, chatId), data |-> <<MapGet(st, chatId)>>]
StorageGetThread(st, chatId) ==
    IF ~MapHas(st, chatId) THEN [storage |-> st, data |-> <<>>]
    ELSE IF StorageExpired(MapGet(st, chatId))
         THEN [storage |-> MapDelete(st, chatId), data |-> <<>>]
         ELSE [storage |-> st, data |-> <<MapGet(st, chatId)>>]

(* ------------------------ MongoDBThreadStorage ------------------------ *)
(* The collection is the sequence of its documents, keyed by chatId (the   *)
(* unique index); a document is a function from field names to values.    *)
ObjectId == <<"ObjectId">>

\* MongoDBThreadStorage.saveThread: updateOne({chatId}, {$set: threadData},
\* {upsert: true}) sets the fields of threadData on the chat's document and
\* inserts the document, with a new _id, when there is none
MongoSaveThread(st, threadData) ==
    LET doc == IF MapHas(st, threadData.chatId) THEN MapGet(st, threadData.chatId)
               ELSE [f \in {"_id"} |-> ObjectId]
    IN  MapSet(st, threadData.chatId,
               [f \in DOMAIN doc \cup DOMAIN threadData |->
                    IF f \in DOMAIN threadData THEN threadData[f] ELSE doc[f]])

\* faulty variant: an expired document is reported absent but not deleted
MongoGetThreadKeepsExpired(st, chatId) ==
    IF ~MapHas(st, chatId) THEN [storage |-> st, data |-> <<>>]
    ELSE IF Ttl # 0 /\ now - MapGet(st, chatId).lastUsed > Ttl
         THEN [storage |-> st, data |-> <<>>]
         ELSE [storage |-> st, data |-> <<MapGet(st, chatId)>>]

\* MongoDBThreadStorage.getThread: findOne, the TTL test, deleteOne
MongoGetThread(st, chatId) ==
    IF ~MapHas(st, chatId) THEN [storage |-> st, data |-> <<>>]
    ELSE IF Ttl # 0 /\ now - MapGet(st, chatId).lastUsed > Ttl
         THEN [storage |-> MapDelete(st, chatId), data |-> <<>>]
         ELSE [storage |-> st, data |-> <<MapGet(st, chatId)>>]

(* -------------------------- SQLThreadStorage -------------------------- *)
(* The table is the sequence of its rows, keyed by chatId (the primary    *)
(* key).  The context and history columns are JSON columns, lastUsed is a *)
(* DATE column: what is written to it is turned into a Date and read back *)
(* as a Date.  A Date object for the instant n is written -n: it is not   *)
(* the number n, and getTime() gives n back.                              *)
JsonStringify(v) == [json |-> v]
JsonParse(j) == j.json
ToDate(n) == IF n > 0 THEN 0 - n ELSE n
GetTime(d) == IF d < 0 THEN 0 - d ELSE d

\* SQLThreadStorage.saveThread: upsert of the four columns
SqlSaveThread(st, threadData) ==
    MapSet(st, threadData.chatId,
           [chatId |-> threadData.chatId,
            context |-> JsonStringify(threadData.context),
            history |-> JsonStringify(threadData.history),
            lastUsed |-> ToDate(threadData.lastUsed)])

\* SQLThreadStorage.getThread: findByPk, toJSON, the TTL test, destroy
SqlGetThread(st, chatId) ==
    IF ~MapHas(st, chatId) THEN [storage |-> st, data |-> <<>>]
    ELSE LET row        == MapGet(st, chatId)
             threadData == [chatId |-> row.chatId, context |-> JsonParse(row.context),
                            history |-> JsonParse(row.history), lastUsed |-> row.lastUsed]
         IN  IF Ttl # 0 /\ now - GetTime(threadData.lastUsed) > Ttl
             THEN [storage |-> MapDelete(st, chatId), data |-> <<>>]
             ELSE [storage |-> st, data |-> <<threadData>>]

(* --------------------------- ThreadStorage ---------------------------- *)
\* ThreadStorage.create(provider): the adapters
Adapters == {"memory", "mongodb", "sql"}
AdapterSaveThread(a, st, threadData) ==
    CASE a = "memory"  -> StorageSaveThread(st, threadData)
      [] a = "mongodb" -> MongoSaveThread(st, threadData)
      [] a = "sql"     -> SqlSaveThread(st, threadData)
AdapterGetThread(a, st, chatId) ==
    CASE a = "memory"  -> StorageGetThread(st, chatId)
      [] a = "mongodb" -> MongoGetThread(st, chatId)
      [] a = "sql"     -> SqlGetThread(st, chatId)

(* ----------------------- AIAssistant / Thread ------------------------- *)
\* AIAssistant.saveThread(thread): the snapshot copies the context and
\* lastUsed and shares the history array with the thread
saveThread(w, t) ==
    LET o == w.objs[t]
    IN  IF storageUp
        THEN [w EXCEPT !.storage = AdapterSaveThread(adapter, @,
                [chatId |-> o.chatId, context |-> o.context,
                 history |-> o.history, lastUsed |-> o.lastUsed])]
        ELSE w

\* await this.saveThread(thread) in a function of p: the promise p awaits
\* rejects when the storage backend does not answer
StorageError == <<"Error: storage request failed">>
AwaitSaveThread(w, p, t) == [saveThread(w, t) EXCEPT !.procs[p].rejected = ~storageUp]

\* Thread.addContext(key, value): sets the key and saves (_saveChanges)
addContext(w, t, key, value) ==
    saveThread([w EXCEPT !.objs[t].context = ObjSet(@, key, value)], t)

\* threads.sort((a, b) => a[1].lastUsed - b[1].lastUsed): stable
RECURSIVE InsertByLastUsed(_, _, _)
InsertByLastUsed(sorted, e, ob) ==
    IF sorted = <<>> THEN <<e>>
    ELSE IF ob[Head(sorted).value].lastUsed <= ob[e.value].lastUsed
         THEN <<Head(sorted)>> \o InsertByLastUsed(Tail(sorted), e, ob)
         ELSE <<e>> \o sorted
RECURSIVE SortByLastUsed(_, _)
SortByLastUsed(entries, ob) ==
    IF entries = <<>> THEN <<>>
    ELSE InsertByLastUsed(SortByLastUsed(SubSeq(entries, 1, Len(entries) - 1), ob),
                          entries[Len(entries)], ob)

TypeErrorNotIterable == <<"TypeError: undefined is not iterable">>

\* AIAssistant.createThread, from storage.getThread to its await
\* faulty variant: a snapshot whose context records human mode puts the chat
\* back in the handoff set
CreateThreadLoadRestoresMode(w, p) ==
    LET got == AdapterGetThread(adapter, w.storage, w.procs[p].chatId)
        human == /\ got.data # <<>>
                 /\ "handoffState" \in DOMAIN got.data[1].context
    IN  IF storageUp
        THEN [w EXCEPT !.storage = got.storage, !.procs[p].data = got.data,
                       !.handoffState =
                            IF human THEN MapSet(@, w.procs[p].chatId,
                                                 got.data[1].context["handoffState"])
                            ELSE @,
                       !.procs[p].pc = "createThread_loading"]
        ELSE [w EXCEPT !.procs[p].rejected = TRUE,
                       !.procs[p].pc = "createThread_loading"]

\* AIAssistant.createThread from the call of this._storage.getThread to its await
CreateThreadLoad(w, p) ==
    LET got == AdapterGetThread(adapter, w.storage, w.procs[p].chatId)
    IN  IF storageUp
        THEN [w EXCEPT !.storage = got.storage, !.procs[p].data = got.data,
                       !.procs[p].pc = "createThread_loading"]
        ELSE [w EXCEPT !.procs[p].rejected = TRUE,
                       !.procs[p].pc = "createThread_loading"]

\* faulty variant: the entry is dropped before the save is awaited
CleanupLoopDropsFirst(w, p) ==
    LET pr == w.procs[p]
    IN  IF Len(w.threads) >= config.maxThreads
        THEN IF pr.evq = <<>>
             THEN Raise([w EXCEPT !.procs[p].evcur = <<>>], p, TypeErrorNotIterable)
             ELSE LET e == Head(pr.evq)
                  IN  AwaitSaveThread([w EXCEPT !.threads = MapDelete(@, e.key),
                                                !.procs[p].evq = Tail(pr.evq),
                                                !.procs[p].evcur = <<>>,
                                                !.procs[p].pc = "createThread_cleaned"],
                                      p, e.value)
        ELSE [w EXCEPT !.procs[p].evq = <<>>, !.procs[p].evcur = <<>>,
                       !.procs[p].pc = "createThread_cleaned"]

\* AIAssistant._cleanupOldThreads: the while loop, from its test to the await
\* of saveThread
CleanupLoop(w, p) ==
    LET pr == w.procs[p]
    IN  IF Len(w.threads) >= config.maxThreads
        THEN IF pr.evq = <<>>
             THEN Raise([w EXCEPT !.procs[p].evcur = <<>>], p, TypeErrorNotIterable)
             ELSE LET e == Head(pr.evq)
                  IN  AwaitSaveThread([w EXCEPT !.procs[p].evq = Tail(pr.evq),
                                                !.procs[p].evcur = <<e>>,
                                                !.procs[p].pc = "cleanup_saving"],
                                      p, e.value)
        ELSE [w EXCEPT !.procs[p].evq = <<>>, !.procs[p].evcur = <<>>,
                       !.procs[p].pc = "createThread_cleaned"]

\* AIAssistant.createThread(chatId), up to its first await
BeginCreateThread(w, p) ==
    IF Len(w.threads) >= config.maxThreads
    THEN CleanupLoop([w EXCEPT !.procs[p].evq = SortByLastUsed(w.threads, w.objs)], p)
    ELSE CreateThreadLoad(w, p)

\* _cleanupOldThreads after the await of saveThread: drop the entry, loop
CleanupResume(w, p) ==
    CleanupLoop([w EXCEPT !.threads = MapDelete(@, w.procs[p].evcur[1].key)], p)

\* AIProvider.providers: the registered provider names
ProviderNames == {"openai", "anthropic", "google", "local"}
UnsupportedProvider(name) == <<"Error: Unsupported AI provider:", name>>

\* faulty variant: createThread always starts from an empty thread
CreateThreadResumeFresh(w, p) ==
    LET pr  == w.procs[p]
        t   == NewId(w.objs)
        thr == [chatId |-> pr.chatId, context |-> EmptyObject,
                history |-> NewId(w.arrs), lastUsed |-> now]
        w2  == [w EXCEPT !.arrs = Alloc(w.arrs, <<>>), !.objs = Alloc(w.objs, thr),
                         !.threads = MapSet(@, pr.chatId, t),
                         !.procs[p].thread = t, !.procs[p].data = <<>>]
    IN  Return(w2, p, t)

\* AIAssistant.createThread after the await of storage.getThread
CreateThreadResume(w, p) ==
    LET pr    == w.procs[p]
        fresh == pr.data = <<>>
        arr   == IF fresh THEN NewId(w.arrs) ELSE pr.data[1].history
        ar2   == IF fresh THEN Alloc(w.arrs, <<>>) ELSE w.arrs
        td    == IF fresh
                 THEN [chatId |-> pr.chatId, context |-> EmptyObject,
                       history |-> arr, lastUsed |-> now]
                 ELSE pr.data[1]
        t     == NewId(w.objs)
        thr   == [chatId |-> pr.chatId, context |-> td.context,
                  history |-> td.history,
                  lastUsed |-> IF td.lastUsed # 0 THEN td.lastUsed ELSE now]
        w2    == [w EXCEPT !.arrs = ar2, !.objs = Alloc(w.objs, thr),
                           !.threads = MapSet(@, pr.chatId, t),
                           !.procs[p].thread = t, !.procs[p].data = <<>>]
    IN  IF config.provider \in ProviderNames THEN Return(w2, p, t)
        ELSE Raise([w EXCEPT !.procs[p].data = <<>>], p,
                   UnsupportedProvider(config.provider))

\* history.push(entry) on the thread's current array
HistoryPush(w, t, entry) == [w EXCEPT !.arrs[w.objs[t].history] = Append(@, entry)]

\* a registered handler is called with args: what the call comes to
\* ("null": no handler registered)
HandlerRuns(h) == humanHandlers[h] # "null"
HandlerThrows(h) == humanHandlers[h] = "throw"
Notify(w, p, h, args) ==
    [w EXCEPT !.procs[p].notes = Append(@, [handler |-> h, args |-> args])]

(* handoffToHuman *)
\* faulty variant: a chat that is already in human mode keeps its handoff state
HandoffCommitKeepsOld(w, p) ==
    LET pr == w.procs[p]
        t  == pr.thread
        hs == IF MapHas(w.handoffState, pr.chatId) THEN MapGet(w.handoffState, pr.chatId)
              ELSE [isHumanMode |-> TRUE, handoffTime |-> now, reason |-> pr.reason,
                    metadata |-> pr.metadata, threadId |-> w.objs[t].chatId]
        w1 == [w EXCEPT !.handoffState = MapSet(@, pr.chatId, hs),
                        !.procs[p].hstate = hs, !.procs[p].pc = "handoff_saving"]
    IN  AwaitSaveThread(addContext(w1, t, "handoffState", hs), p, t)

\* AIAssistant.handoffToHuman from "Update handoff state" to the await of saveThread
HandoffCommit(w, p) ==
    LET pr == w.procs[p]
        t  == pr.thread
        hs == [isHumanMode |-> TRUE, handoffTime |-> now, reason |-> pr.reason,
               metadata |-> pr.metadata, threadId |-> w.objs[t].chatId]
        w1 == [w EXCEPT !.handoffState = MapSet(@, pr.chatId, hs),
                        !.procs[p].hstate = hs, !.procs[p].pc = "handoff_saving"]
    IN  AwaitSaveThread(addContext(w1, t, "handoffState", hs), p, t)

\* AIAssistant.handoffToHuman(chatId, reason, metadata), up to its first await
BeginHandoff(w, p, reason, metadata) ==
    LET w1 == [w EXCEPT !.procs[p].reason = reason, !.procs[p].metadata = metadata]
        c  == w.procs[p].chatId
    IN  IF MapHas(w.threads, c)
        THEN HandoffCommit([w1 EXCEPT !.procs[p].thread = MapGet(w.threads, c)], p)
        ELSE BeginCreateThread(Push(w1, p, "handoff_created", "none"), p)

\* AIAssistant.handoffToHuman after the await of saveThread: notify, return true
HandoffNotify(w, p) ==
    LET pr == w.procs[p]
        w1 == IF HandlerRuns("onHandoff")
              THEN Notify(w, p, "onHandoff",
                          [chatId |-> pr.chatId, handoffState |-> pr.hstate])
              ELSE w
        w2 == [w1 EXCEPT !.procs[p].thread = 0, !.procs[p].hstate = EmptyObject]
    IN  Return(w2, p, TRUE)

(* releaseToAI *)
\* faulty variant: the summary goes to the context but not to the history
ReleaseCommitNoHistory(w, p) ==
    LET pr == w.procs[p]
        t  == pr.thread
        w1 == [w EXCEPT !.handoffState = MapDelete(@, pr.chatId),
                        !.procs[p].pc = "release_saving"]
        w2 == IF Truthy(pr.summary)
              THEN addContext(w1, t, "humanInteractionSummary", pr.summary)
              ELSE w1
        w3 == IF DOMAIN pr.metadata # {}
              THEN addContext(w2, t, "releaseMetadata", pr.metadata)
              ELSE w2
    IN  AwaitSaveThread(w3, p, t)

\* AIAssistant.releaseToAI from "Update handoff state" to the await of saveThread
ReleaseCommit(w, p) ==
    LET pr == w.procs[p]
        t  == pr.thread
        w1 == [w EXCEPT !.handoffState = MapDelete(@, pr.chatId),
                        !.procs[p].pc = "release_saving"]
        w2 == IF Truthy(pr.summary)
              THEN HistoryPush(addContext(w1, t, "humanInteractionSummary", pr.summary), t,
                               [role |-> "system",
                                content |-> <<"Human operator summary: ">> \o pr.summary])
              ELSE w1
        w3 == IF DOMAIN pr.metadata # {}
              THEN addContext(w2, t, "releaseMetadata", pr.metadata)
              ELSE w2
    IN  AwaitSaveThread(w3, p, t)

\* faulty variant: releaseToAI without the isInHumanMode guard
BeginReleaseUnguarded(w, p) ==
    LET c == w.procs[p].chatId
    IN  IF MapHas(w.threads, c)
        THEN ReleaseCommit([w EXCEPT !.procs[p].thread = MapGet(w.threads, c)], p)
        ELSE BeginCreateThread(Push(w, p, "release_created", "none"), p)

\* AIAssistant.releaseToAI(chatId, summary, metadata), up to its first await
BeginRelease(w, p) ==
    LET c == w.procs[p].chatId
    IN  IF ~IsInHumanModeIn(w.handoffState, c) THEN Return(w, p, FALSE)
        ELSE IF MapHas(w.threads, c)
        THEN ReleaseCommit([w EXCEPT !.procs[p].thread = MapGet(w.threads, c)], p)
        ELSE BeginCreateThread(Push(w, p, "release_created", "none"), p)

\* faulty variant: the onRelease handler is called outside a try block
HandlerError == <<"Error: handler failed">>
ReleaseNotifyNoTry(w, p) ==
    LET pr == w.procs[p]
        w1 == IF HandlerRuns("onRelease")
              THEN Notify(w, p, "onRelease",
                          [chatId |-> pr.chatId, summary |-> pr.summary,
                           metadata |-> pr.metadata])
              ELSE w
    IN  IF HandlerRuns("onRelease") /\ HandlerThrows("onRelease")
        THEN Raise([w1 EXCEPT !.procs[p].thread = 0], p, HandlerError)
        ELSE Return([w1 EXCEPT !.procs[p].thread = 0], p, TRUE)

\* AIAssistant.releaseToAI after the await of saveThread: notify, return true
\* (an error of the handler is caught and logged)
ReleaseNotify(w, p) ==
    LET pr == w.procs[p]
        w1 == IF HandlerRuns("onRelease")
              THEN Notify(w, p, "onRelease",
                          [chatId |-> pr.chatId, summary |-> pr.summary,
                           metadata |-> pr.metadata])
              ELSE w
    IN  Return([w1 EXCEPT !.procs[p].thread = 0], p, TRUE)

(* ask *)
BlockedResponse == <<"I can't process that request.">>
MiddlewareError == <<"Error: middleware failed">>
BackendError == <<"Error: provider request failed">>

\* _executeMiddleware: the context and the counter index that every next()
\* of one call shares.  ran and after list the steps in the order their code
\* before and after next() ran, seen what each step's code after next()
\* found in context.response.
MwStart == [index |-> 0, ran |-> <<>>, after |-> <<>>, seen |-> <<>>,
            response |-> NullText, error |-> NullText]
\* a step's code after its last next(), unless next() threw
MwAfter(st, i) ==
    IF st.error # NullText THEN st
    ELSE [st EXCEPT !.after = Append(@, i), !.seen = Append(@, st.response)]

\* faulty variant: a second next() of a step starts again at the step after it
RECURSIVE CallNextByPosition(_, _)
CallNextByPosition(mw, st) ==
    IF st.index >= Len(mw) THEN st
    ELSE LET i == st.index + 1
             s1 == [st EXCEPT !.index = i, !.ran = Append(@, i)]
         IN  CASE mw[i] = "short" -> [s1 EXCEPT !.response = BlockedResponse]
               [] mw[i] = "empty" -> [s1 EXCEPT !.response = EmptyText]
               [] mw[i] = "throw" -> [s1 EXCEPT !.error = MiddlewareError]
               [] mw[i] = "twice" ->
                    LET s2 == CallNextByPosition(mw, s1)
                    IN  IF s2.error # NullText THEN s2
                        ELSE MwAfter(CallNextByPosition(mw, [s2 EXCEPT !.index = i]), i)
               [] OTHER -> MwAfter(CallNextByPosition(mw, s1), i)

\* next(): if (index < this._middleware.length) the step at index runs, index
\* being incremented first.  A "pass" step runs its code before next(), awaits
\* next() and runs its code after it; a "twice" step awaits next() two times;
\* "short" sets context.response to a text and returns, "empty" sets it to
\* '' and returns, "throw" throws.
RECURSIVE CallNext(_, _)
CallNext(mw, st) ==
    IF st.index >= Len(mw) THEN st
    ELSE LET i == st.index + 1
             s1 == [st EXCEPT !.index = i, !.ran = Append(@, i)]
         IN  CASE mw[i] = "short" -> [s1 EXCEPT !.response = BlockedResponse]
               [] mw[i] = "empty" -> [s1 EXCEPT !.response = EmptyText]
               [] mw[i] = "throw" -> [s1 EXCEPT !.error = MiddlewareError]
               [] mw[i] = "twice" ->
                    LET s2 == CallNext(mw, s1)
                    IN  IF s2.error # NullText THEN s2
                        ELSE MwAfter(CallNext(mw, s2), i)
               [] OTHER -> MwAfter(CallNext(mw, s1), i)

\* faulty variant: the code after next() runs in registration order
RunMiddlewareAfterInOrder(mw, i) ==
    LET r == CallNext(mw, [MwStart EXCEPT !.index = i - 1])
        n == Len(r.after)
    IN  [ran |-> r.ran, after |-> [k \in 1..n |-> r.after[n + 1 - k]],
         seen |-> r.seen, response |-> r.response, error |-> r.error]

\* _executeMiddleware(context) with the first next() at step i
RunMiddleware(mw, i) ==
    LET r == CallNext(mw, [MwStart EXCEPT !.index = i - 1])
    IN  [ran |-> r.ran, after |-> r.after, seen |-> r.seen, response |-> r.response,
         error |-> r.error]

\* AIAssistant.ask returns value to its caller
AskReturn(w, p, value) ==
    Return([w EXCEPT !.procs[p].thread = 0, !.procs[p].response = value], p, value)

\* AIAssistant.ask, the catch block
AskCatch(w, p) ==
    LET pr == w.procs[p]
        w1 == [w EXCEPT !.stats.errors = @ + 1, !.procs[p].thread = 0]
    IN  IF Truthy(pr.options.fallbackResponse)
        THEN AskReturn(w1, p, pr.options.fallbackResponse)
        ELSE Raise(w1, p, pr.error)

\* the messages the running _callAI of p was given: the thread's history
\* array itself, or the copy a function call made of its messages
MessagesOf(w, p) ==
    IF w.procs[p].copied = <<>> THEN w.arrs[w.objs[w.procs[p].thread].history]
    ELSE w.procs[p].copied[1]

\* Thread._callAI up to the await of this._provider.generateResponse
CallAIBegin(w, p) ==
    [w EXCEPT !.procs[p].backendCalls = @ + 1,
              !.procs[p].calls = Append(@, [to |-> "primary",
                                            systemPrompt |-> w.procs[p].systemPrompt,
                                            messages |-> MessagesOf(w, p)]),
              !.procs[p].pc = "thread_calling"]

\* Thread.ask(prompt, options) up to the await of the provider's answer
ThreadAskBegin(w, p) ==
    LET pr == w.procs[p]
        t  == pr.thread
        w1 == [w EXCEPT !.objs[t].lastUsed = now,
                        !.procs[p].systemPrompt = w.objs[t].context,
                        !.procs[p].copied = <<>>]
    IN  CallAIBegin(HistoryPush(w1, t, [role |-> "user", content |-> pr.message]), p)

\* faulty variant: the answer is appended to the history and not saved
ThreadAskFinishSkipsSave(w, p, response) ==
    LET t  == w.procs[p].thread
        w1 == HistoryPush(w, t, [role |-> "assistant", content |-> response])
    IN  [w1 EXCEPT !.procs[p].response = response, !.procs[p].pc = "thread_saving"]

\* Thread.ask after _callAI returned response, up to the await of _saveChanges
ThreadAskFinish(w, p, response) ==
    LET t  == w.procs[p].thread
        w1 == HistoryPush(w, t, [role |-> "assistant", content |-> response])
        h  == w1.arrs[w1.objs[t].history]
        w2 == IF Len(h) > HistoryLimit
              THEN [w1 EXCEPT !.arrs = Alloc(@, SubSeq(h, Len(h) - HistoryLimit + 1, Len(h))),
                              !.objs[t].history = NewId(w1.arrs)]
              ELSE w1
    IN  AwaitSaveThread([w2 EXCEPT !.procs[p].response = response,
                                   !.procs[p].pc = "thread_saving"], p, t)

\* faulty variant: the fallback provider is tried before options.fallbackResponse
CallAICatchProviderFirst(w, p, error) ==
    LET pr == w.procs[p]
    IN  IF pr.options.fallbackProvider \in ProviderNames
        THEN [w EXCEPT !.procs[p].error = error,
                       !.procs[p].calls =
                           Append(@, [to |-> "fallback",
                                      systemPrompt |-> pr.systemPrompt,
                                      messages |-> MessagesOf(w, p)]),
                       !.procs[p].pc = "callai_fallback"]
        ELSE IF Truthy(pr.options.fallbackResponse)
        THEN ThreadAskFinish(w, p, pr.options.fallbackResponse)
        ELSE Raise(w, p, error)

\* Thread._callAI, the catch block, up to the await of the fallback provider
CallAICatch(w, p, error) ==
    LET pr == w.procs[p]
    IN  IF Truthy(pr.options.fallbackResponse)
        THEN ThreadAskFinish(w, p, pr.options.fallbackResponse)
        ELSE IF pr.options.fallbackProvider # "undefined"
        THEN IF pr.options.fallbackProvider \in ProviderNames
             THEN [w EXCEPT !.procs[p].error = error,
                            !.procs[p].calls =
                                Append(@, [to |-> "fallback",
                                           systemPrompt |-> pr.systemPrompt,
                                           messages |-> MessagesOf(w, p)]),
                            !.procs[p].pc = "callai_fallback"]
             ELSE Raise(w, p, error)
        ELSE Raise(w, p, error)

\* faulty variant: the recursive _callAI is awaited inside the try block, so
\* an error the inner call rethrows reaches the catch block of its caller
FallbackResumeOuterCatch(w0, p, ok, content) ==
    LET w   == [w0 EXCEPT !.procs[p].fallback = IF ok THEN "ok" ELSE "failed"]
        own == w.arrs[w.objs[w.procs[p].thread].history]
        cur == MessagesOf(w, p)
        out == SubSeq(cur, 1, Len(cur) - 2)
    IN  IF ok THEN ThreadAskFinish(w, p, content)
        ELSE IF w.procs[p].copied = <<>> THEN Raise(w, p, w.procs[p].error)
        ELSE CallAICatch([w EXCEPT !.procs[p].copied =
                                      IF Len(out) = Len(own) THEN <<>> ELSE <<out>>],
                         p, w.procs[p].error)

\* Thread._callAI after the await of the fallback provider
FallbackResume(w0, p, ok, content) ==
    LET w == [w0 EXCEPT !.procs[p].fallback = IF ok THEN "ok" ELSE "failed"]
    IN  IF ok THEN ThreadAskFinish(w, p, content)
        ELSE Raise(w, p, w.procs[p].error)

\* Thread._callAI after the await of the provider: the answer, or the catch block
CallAIResume(w0, p, ok, content) ==
    LET w == [w0 EXCEPT !.procs[p].provider = IF ok THEN "ok" ELSE "failed",
                        !.procs[p].answer = IF ok THEN content ELSE NullText]
    IN  IF ok THEN ThreadAskFinish(w, p, content)
        ELSE CallAICatch(w, p, BackendError)

(* function calls *)
FunctionNotFound(name) == <<"Error: Function", name, "not found">>
FunctionError == <<"function failed">>
SyntaxError == <<"Unexpected token in JSON">>
FunctionValue == <<"sunny">>
ArgsJson == <<"{\"city\":\"Paris\"}">>
ArgsBroken == <<"{city">>

\* faulty variant: a failure of the function or of JSON.parse is thrown
HandleFunctionCallPropagates(fns, functionCall) ==
    IF ~MapHas(fns, functionCall.name)
    THEN [kind |-> "throw", value |-> FunctionNotFound(functionCall.name),
          invoked |-> FALSE]
    ELSE IF functionCall.arguments # ArgsJson
    THEN [kind |-> "throw", value |-> SyntaxError, invoked |-> FALSE]
    ELSE IF MapGet(fns, functionCall.name) = "throw"
    THEN [kind |-> "throw", value |-> FunctionError, invoked |-> TRUE]
    ELSE [kind |-> "return", value |-> FunctionValue, invoked |-> TRUE]

\* Thread._handleFunctionCall(functionCall) up to its return: "throw" with
\* the error when the function is not registered, else "return" with the
\* function's value or the {error} object that wraps a failure of JSON.parse
\* or of the function; invoked tells whether the function was called
HandleFunctionCall(fns, functionCall) ==
    IF ~MapHas(fns, functionCall.name)
    THEN [kind |-> "throw", value |-> FunctionNotFound(functionCall.name),
          invoked |-> FALSE]
    ELSE IF functionCall.arguments # ArgsJson
    THEN [kind |-> "return", value |-> [error |-> SyntaxError], invoked |-> FALSE]
    ELSE IF MapGet(fns, functionCall.name) = "throw"
    THEN [kind |-> "return", value |-> [error |-> FunctionError], invoked |-> TRUE]
    ELSE [kind |-> "return", value |-> FunctionValue, invoked |-> TRUE]

\* faulty variant: after one function call a function_call is not followed
\* and response.content is returned
CallAIFunctionDepthOne(w, p, functionCall) ==
    LET r == HandleFunctionCall(functions, functionCall)
    IN  IF w.procs[p].fnLog # <<>>
        THEN ThreadAskFinish([w EXCEPT !.procs[p].provider = "ok",
                                       !.procs[p].answer = NullText], p, NullText)
        ELSE [w EXCEPT !.procs[p].provider = "ok",
                  !.procs[p].answer = NullText,
                  !.procs[p].fnResult = <<[call |-> functionCall, outcome |-> r]>>,
                  !.procs[p].fnLog = Append(@, [name |-> functionCall.name,
                                                arguments |-> functionCall.arguments,
                                                invoked |-> r.invoked,
                                                kind |-> r.kind, value |-> r.value]),
                  !.procs[p].pc = "callai_function"]

\* Thread._callAI after the await of the provider, whose response carries a
\* function_call, up to the await of _handleFunctionCall
CallAIFunction(w, p, functionCall) ==
    LET r == HandleFunctionCall(functions, functionCall)
    IN  [w EXCEPT !.procs[p].provider = "ok",
                  !.procs[p].answer = NullText,
                  !.procs[p].fnResult = <<[call |-> functionCall, outcome |-> r]>>,
                  !.procs[p].fnLog = Append(@, [name |-> functionCall.name,
                                                arguments |-> functionCall.arguments,
                                                invoked |-> r.invoked,
                                                kind |-> r.kind, value |-> r.value]),
                  !.procs[p].pc = "callai_function"]

\* faulty variant: the error of _handleFunctionCall is given to the provider
CallAIFunctionResumeGoesOn(w, p) ==
    LET pr == w.procs[p]
        fr == pr.fnResult[1]
        w1 == [w EXCEPT !.procs[p].fnResult = <<>>]
    IN  CallAIBegin([w1 EXCEPT !.procs[p].copied =
                    <<MessagesOf(w, p)
                      \o <<[role |-> "assistant", content |-> NullText],
                           [role |-> "function", name |-> fr.call.name,
                            content |-> JsonStringify(fr.outcome.value)]>> >>], p)

\* Thread._callAI after the await of _handleFunctionCall: the catch block, or
\* _callAI again with the messages, the response and the function's result
CallAIFunctionResume(w, p) ==
    LET pr == w.procs[p]
        fr == pr.fnResult[1]
        w1 == [w EXCEPT !.procs[p].fnResult = <<>>]
    IN  IF fr.outcome.kind = "throw" THEN CallAICatch(w1, p, fr.outcome.value)
        ELSE CallAIBegin([w1 EXCEPT !.procs[p].copied =
                    <<MessagesOf(w, p)
                      \o <<[role |-> "assistant", content |-> NullText],
                           [role |-> "function", name |-> fr.call.name,
                            content |-> JsonStringify(fr.outcome.value)]>> >>], p)

\* AIAssistant.ask from "Get or create thread" on
AskGetThread(w, p) ==
    LET c == w.procs[p].chatId
    IN  IF MapHas(w.threads, c)
        THEN ThreadAskBegin(Push([w EXCEPT !.procs[p].thread = MapGet(w.threads, c)],
                                 p, "ask_answered", "ask_catch"), p)
        ELSE BeginCreateThread(Push(w, p, "ask_created", "ask_catch"), p)

\* AIAssistant.ask after the await of createThread
AskCreated(w, p) == ThreadAskBegin(Push(w, p, "ask_answered", "ask_catch"), p)

\* Thread.ask after the await of _saveChanges: return response
ThreadAskReturn(w, p) == Return(w, p, w.procs[p].response)

\* faulty variant: the middleware's error is dropped
AskAfterMiddlewareDropsError(w, p) ==
    LET pr == w.procs[p]
    IN  IF Truthy(pr.response) THEN AskReturn(w, p, pr.response)
        ELSE AskGetThread(w, p)

\* AIAssistant.ask after the await of _executeMiddleware
AskAfterMiddleware(w, p) ==
    LET pr == w.procs[p]
    IN  IF pr.error # NullText THEN AskCatch(w, p)
        ELSE IF Truthy(pr.response) THEN AskReturn(w, p, pr.response)
        ELSE AskGetThread(w, p)

\* faulty variant: the human-mode check sits inside the try block, after the middleware
BeginAskCheckInsideTry(w, p) ==
    LET pr == w.procs[p]
        mw == RunMiddleware(middleware, 1)
    IN  [w EXCEPT !.stats.requests = @ + 1,
                  !.procs[p].mwRan = mw.ran,
                  !.procs[p].response = mw.response,
                  !.procs[p].error =
                      IF IsInHumanModeIn(w.handoffState, pr.chatId)
                         /\ ~pr.options.ignoreHandoffState
                      THEN HumanModeError ELSE mw.error,
                  !.procs[p].pc = "ask_middleware"]

\* AIAssistant.ask(chatId, prompt, options), up to its first await
BeginAsk(w, p) ==
    LET pr == w.procs[p]
        mw == RunMiddleware(middleware, 1)
    IN  IF IsInHumanModeIn(w.handoffState, pr.chatId) /\ ~pr.options.ignoreHandoffState
        THEN Raise(w, p, HumanModeError)
        ELSE [w EXCEPT !.stats.requests = @ + 1,
                       !.procs[p].mwRan = mw.ran,
                       !.procs[p].mwAfter = mw.after,
                       !.procs[p].mwSeen = mw.seen,
                       !.procs[p].response = mw.response,
                       !.procs[p].error = mw.error,
                       !.procs[p].pc = "ask_middleware"]

\* AIAssistant.ask after the await of thread.ask
AskAnswered(w, p) == AskReturn(w, p, w.procs[p].response)

(* processMessage *)
HandlerResponse == <<"An agent will respond shortly.">>

\* faulty variant: the handoff commands are looked for before the human-mode check
BeginProcessMessageTagsFirst(w, p) ==
    LET pr == w.procs[p]
        c  == pr.chatId
    IN  IF HasUserTag(pr.message)
        THEN BeginHandoff(Push(w, p, "pm_tag_handoff", "none"), p,
                          UserTagReason(pr.message),
                          [triggerMessage |-> pr.message, automatic |-> FALSE])
        ELSE IF IsInHumanModeIn(w.handoffState, c)
        THEN IF HandlerRuns("onMessage")
             THEN Notify([w EXCEPT !.procs[p].pc = "pm_human"], p, "onMessage",
                         [chatId |-> c, message |-> pr.message,
                          handoffState |-> HandoffStateGet(w.handoffState, c)])
             ELSE Return(w, p, [type |-> "human", response |-> NullText, handled |-> FALSE,
                                handoffState |-> HandoffStateGet(w.handoffState, c)])
        ELSE BeginAsk(Push(w, p, "pm_asked", "pm_catch"), p)

\* AIAssistant.processMessage(chatId, message, options), up to its first await
BeginProcessMessage(w, p) ==
    LET pr == w.procs[p]
        c  == pr.chatId
    IN  IF IsInHumanModeIn(w.handoffState, c)
        THEN IF HandlerRuns("onMessage")
             THEN Notify([w EXCEPT !.procs[p].pc = "pm_human"], p, "onMessage",
                         [chatId |-> c, message |-> pr.message,
                          handoffState |-> HandoffStateGet(w.handoffState, c)])
             ELSE Return(w, p, [type |-> "human", response |-> NullText, handled |-> FALSE,
                                handoffState |-> HandoffStateGet(w.handoffState, c)])
        ELSE IF HasUserTag(pr.message)
        THEN BeginHandoff(Push(w, p, "pm_tag_handoff", "none"), p,
                          UserTagReason(pr.message),
                          [triggerMessage |-> pr.message, automatic |-> FALSE])
        ELSE BeginAsk(Push(w, p, "pm_asked", "pm_catch"), p)

\* processMessage after the await of the onMessage handler
PmHumanResume(w, p) ==
    LET c  == w.procs[p].chatId
        hs == HandoffStateGet(w.handoffState, c)
    IN  IF HandlerThrows("onMessage")
        THEN Return(w, p, [type |-> "human", response |-> NullText, handled |-> FALSE,
                           handoffState |-> hs])
        ELSE IF humanHandlers["onMessage"] = "void"
        THEN Return(w, p, [type |-> "human", response |-> UndefinedText, handled |-> FALSE,
                           handoffState |-> hs])
        ELSE Return(w, p, [type |-> "human", response |-> HandlerResponse, handled |-> TRUE,
                           handoffState |-> hs])

\* processMessage after the await of handoffToHuman (user tag)
PmTagHandoffResume(w, p) ==
    Return(w, p, [type |-> "handoff", response |-> TransferMessage,
                  handoffState |-> HandoffStateGet(w.handoffState, w.procs[p].chatId)])

\* processMessage after the await of ask
PmAsked(w, p) ==
    LET pr == w.procs[p]
        response == pr.response
    IN  IF HasAiTag(response)
        THEN BeginHandoff(Push([w EXCEPT !.procs[p].clean = CleanResponse(response)],
                               p, "pm_ai_handoff", "pm_catch"), p,
                          AiTagReason(response),
                          [triggerMessage |-> pr.message,
                           aiResponse |-> CleanResponse(response), automatic |-> TRUE])
        ELSE Return(w, p, [type |-> "ai", response |-> response])

\* processMessage after the await of handoffToHuman (tag in the AI response)
PmAiHandoffResume(w, p) ==
    LET pr == w.procs[p]
    IN  Return(w, p, [type |-> "handoff",
                      response |-> IF Truthy(pr.clean) THEN pr.clean ELSE TransferMessage,
                      handoffState |-> HandoffStateGet(w.handoffState, pr.chatId)])

\* faulty variant: the catch block without the handoffOnError branch
PmCatchRethrows(w0, p) ==
    Raise([w0 EXCEPT !.procs[p].caught = TRUE], p, w0.procs[p].error)

\* processMessage, the catch block
PmCatch(w0, p) ==
    LET pr == w0.procs[p]
        w  == [w0 EXCEPT !.procs[p].caught = TRUE]
    IN  IF pr.options.handoffOnError
        THEN BeginHandoff(Push(w, p, "pm_error_handoff", "none"), p,
                          <<"AI processing error">>,
                          [error |-> pr.error, triggerMessage |-> pr.message,
                           automatic |-> TRUE])
        ELSE Raise(w, p, pr.error)

\* processMessage after the await of handoffToHuman (error)
PmErrorHandoffResume(w, p) ==
    LET pr == w.procs[p]
    IN  Return(w, p, [type |-> "handoff", response |-> ApologyMessage,
                      handoffState |-> HandoffStateGet(w.handoffState, pr.chatId),
                      error |-> pr.error])

(* ------------------------------ actions ------------------------------- *)
\* objects and arrays that are still referenced
LiveObjs(w) ==
    {w.threads[i].value : i \in 1..Len(w.threads)}
    \cup {w.procs[p].thread : p \in {q \in Procs : w.procs[q].thread # 0}}
    \cup UNION {{w.procs[p].evq[i].value : i \in 1..Len(w.procs[p].evq)} : p \in Procs}
    \cup UNION {{w.procs[p].evcur[i].value : i \in 1..Len(w.procs[p].evcur)} : p \in Procs}
LiveArrs(w) ==
    {w.objs[t].history : t \in LiveObjs(w)}
    \cup {w.storage[i].value.history : i \in 1..Len(w.storage)}
    \cup UNION {{w.procs[p].data[i].history : i \in 1..Len(w.procs[p].data)} : p \in Procs}

\* the step's outcome becomes the next state
Install(w) ==
    /\ handoffState' = w.handoffState
    /\ threads' = w.threads
    /\ objs' = [t \in LiveObjs(w) |-> w.objs[t]]
    /\ arrs' = [a \in LiveArrs(w) |-> w.arrs[a]]
    /\ storage' = w.storage
    /\ stats' = w.stats
    /\ procs' = w.procs
    /\ UNCHANGED <<humanHandlers, middleware, now, functions, adapter, saved, lastGet,
                   config, storageUp, parser>>

\* what a call found when it started (kept to state what the call did)
Snapshot(chatId) == [human |-> isInHumanMode(chatId), now |-> now,
                     handoffState |-> HandoffStateGet(handoffState, chatId)]

Free(p) == procs[p].pc \in {"idle", "done"}
NewCall(p, op, chatId) ==
    [World EXCEPT !.procs[p] = [IdleProc EXCEPT !.op = op, !.chatId = chatId,
                                                !.id = started + 1,
                                                !.pre = Snapshot(chatId)]]

\* a caller invokes ask(chatId, prompt, options)
CallAsk(p, chatId, prompt, options) ==
    /\ config.status = "constructed"
    /\ Free(p)
    /\ started' = started + 1
    /\ Install(BeginAsk([NewCall(p, "ask", chatId) EXCEPT
                            !.procs[p].message = prompt,
                            !.procs[p].options = options], p))

\* a caller invokes processMessage(chatId, message, options)
CallProcessMessage(p, chatId, message, options) ==
    /\ config.status = "constructed"
    /\ Free(p)
    /\ started' = started + 1
    /\ Install(BeginProcessMessage([NewCall(p, "processMessage", chatId) EXCEPT
                            !.procs[p].message = message,
                            !.procs[p].options = options], p))

\* a caller invokes handoffToHuman(chatId, reason, metadata)
CallHandoffToHuman(p, chatId, reason, metadata) ==
    /\ config.status = "constructed"
    /\ Free(p)
    /\ started' = started + 1
    /\ Install(BeginHandoff(NewCall(p, "handoffToHuman", chatId), p, reason, metadata))

\* a caller invokes releaseToAI(chatId, summary, metadata)
CallReleaseToAI(p, chatId, summary, metadata) ==
    /\ config.status = "constructed"
    /\ Free(p)
    /\ started' = started + 1
    /\ Install(BeginRelease([NewCall(p, "releaseToAI", chatId) EXCEPT
                            !.procs[p].summary = summary,
                            !.procs[p].metadata = metadata], p))

\* the provider answers the pending generateResponse call of p
ProviderAnswers(p, ok, content) ==
    /\ procs[p].pc = "thread_calling"
    /\ Install(CallAIResume(World, p, ok, content))
    /\ UNCHANGED started

\* the provider answers the pending generateResponse call of p with a
\* function_call
ProviderRequestsFunction(p, name, arguments) ==
    /\ procs[p].pc = "thread_calling"
    /\ Len(procs[p].fnLog) < MaxFnCalls
    /\ Install(CallAIFunction(World, p, [name |-> name, arguments |-> arguments]))
    /\ UNCHANGED started

\* the fallback provider answers the pending generateResponse call of p
FallbackAnswers(p, ok, content) ==
    /\ procs[p].pc = "callai_fallback"
    /\ Install(FallbackResume(World, p, ok, content))
    /\ UNCHANGED started

\* the continuation of p's pending await runs: the code after the await, or
\* the rejection of the awaited promise thrown at the await
Continue(w, p) ==
    IF w.procs[p].rejected
    THEN Raise([w EXCEPT !.procs[p].rejected = FALSE, !.procs[p].evq = <<>>,
                         !.procs[p].evcur = <<>>], p, StorageError)
    ELSE
    CASE w.procs[p].pc = "cleanup_saving"       -> CleanupResume(w, p)
      [] w.procs[p].pc = "callai_function"      -> CallAIFunctionResume(w, p)
      [] w.procs[p].pc = "createThread_cleaned" -> CreateThreadLoad(w, p)
      [] w.procs[p].pc = "createThread_loading" -> CreateThreadResume(w, p)
      [] w.procs[p].pc = "handoff_created"      -> HandoffCommit(w, p)
      [] w.procs[p].pc = "handoff_saving"       -> HandoffNotify(w, p)
      [] w.procs[p].pc = "release_created"      -> ReleaseCommit(w, p)
      [] w.procs[p].pc = "release_saving"       -> ReleaseNotify(w, p)
      [] w.procs[p].pc = "ask_middleware"       -> AskAfterMiddleware(w, p)
      [] w.procs[p].pc = "ask_created"          -> AskCreated(w, p)
      [] w.procs[p].pc = "thread_saving"        -> ThreadAskReturn(w, p)
      [] w.procs[p].pc = "ask_answered"         -> AskAnswered(w, p)
      [] w.procs[p].pc = "ask_catch"            -> AskCatch(w, p)
      [] w.procs[p].pc = "pm_human"             -> PmHumanResume(w, p)
      [] w.procs[p].pc = "pm_tag_handoff"       -> PmTagHandoffResume(w, p)
      [] w.procs[p].pc = "pm_asked"             -> PmAsked(w, p)
      [] w.procs[p].pc = "pm_ai_handoff"        -> PmAiHandoffResume(w, p)
      [] w.procs[p].pc = "pm_catch"             -> PmCatch(w, p)
      [] w.procs[p].pc = "pm_error_handoff"     -> PmErrorHandoffResume(w, p)

Resume(p) ==
    /\ procs[p].pc \notin {"idle", "done", "thread_calling", "callai_fallback"}
    /\ Install(Continue(World, p))
    /\ UNCHANGED started

\* Date.now() moves on
Tick ==
    /\ now < MaxClock
    /\ now' = now + 1
    /\ UNCHANGED <<handoffState, threads, objs, arrs, storage, humanHandlers, middleware,
                   stats, procs, started, functions, adapter, saved, lastGet,
                   config, storageUp, parser>>

\* the storage backend stops or starts answering
StorageGoes(up) ==
    /\ storageUp # up
    /\ storageUp' = up
    /\ UNCHANGED <<handoffState, threads, objs, arrs, storage, humanHandlers, middleware,
                   stats, now, procs, started, functions, adapter, saved, lastGet, config,
                   parser>>

\* AIAssistant.use(middleware)
use(kind) ==
    /\ Len(middleware) < MaxMiddleware
    /\ middleware' = Append(middleware, kind)
    /\ UNCHANGED <<handoffState, threads, objs, arrs, storage, humanHandlers, stats, now,
                   procs, started, functions, adapter, saved, lastGet,
                   config, storageUp, parser>>

\* AIAssistant.registerFunctions(functions): the entries of the object
RECURSIVE SetAll(_, _)
SetAll(m, entries) ==
    IF entries = <<>> THEN m
    ELSE SetAll(MapSet(m, Head(entries).key, Head(entries).value), Tail(entries))
registerFunctions(fns) ==
    /\ functions' = SetAll(functions, fns)
    /\ UNCHANGED <<handoffState, threads, objs, arrs, storage, humanHandlers, middleware,
                   stats, now, procs, started, adapter, saved, lastGet,
                   config, storageUp, parser>>

\* AIAssistant.registerHumanHandlers(handlers): "null" stands for a handler
\* that is not given
registerHumanHandlers(handlers) ==
    /\ humanHandlers' = [h \in DOMAIN humanHandlers |->
                            IF handlers[h] # "null" THEN handlers[h] ELSE humanHandlers[h]]
    /\ humanHandlers' # humanHandlers
    /\ UNCHANGED <<handoffState, threads, objs, arrs, storage, middleware, stats, now,
                   procs, started, functions, adapter, saved, lastGet,
                   config, storageUp, parser>>

\* the assistant after construction with options.storageProvider = provider
NoGet == [call |-> 0, chatId |-> "c1", result |-> <<>>]
(* --------------------------- TemplateParser --------------------------- *)
(* A string handled by the parser is the sequence of its characters.       *)
Digits == {"0", "1", "2", "3", "4", "5", "6", "7", "8", "9"}
Letters == {"a", "b", "c", "d", "e", "f", "g", "h", "i", "j", "k", "l", "m", "n", "o", "p",
            "q", "r", "s", "t", "u", "v", "w", "x", "y", "z", "M", "S", "T"}
\* the characters \w and \s of a regular expression match
WordChars == Letters \cup Digits \cup {"_"}
SpaceChars == {SP, NL}

\* JavaScript values held by a parsed message
Str(text) == [is |-> "string", text |-> text, num |-> 0, nan |-> FALSE, bool |-> FALSE,
              items |-> <<>>]
Num(n) == [is |-> "number", text |-> <<>>, num |-> n, nan |-> FALSE, bool |-> FALSE,
           items |-> <<>>]
NaN == [is |-> "number", text |-> <<>>, num |-> 0, nan |-> TRUE, bool |-> FALSE,
        items |-> <<>>]
Bool(b) == [is |-> "boolean", text |-> <<>>, num |-> 0, nan |-> FALSE, bool |-> b,
            items |-> <<>>]
Arr(items) == [is |-> "array", text |-> <<>>, num |-> 0, nan |-> FALSE, bool |-> FALSE,
               items |-> items]
\* typeof value
TypeOf(v) == IF v.is = "array" THEN "object" ELSE v.is

\* the last index of the longest run of characters of S that starts at i
\* (i - 1 when s[i] is not in S)
RECURSIVE RunEnd(_, _, _)
RunEnd(s, i, S) == IF i <= Len(s) /\ s[i] \in S THEN RunEnd(s, i + 1, S) ELSE i - 1

\* String.prototype.split(sep) with a one-character separator
RECURSIVE Split(_, _)
Split(s, sep) ==
    IF \E i \in 1..Len(s) : s[i] = sep
    THEN LET i == CHOOSE k \in 1..Len(s) : s[k] = sep /\ \A j \in 1..(k - 1) : s[j] # sep
         IN  <<SubSeq(s, 1, i - 1)>> \o Split(SubSeqFrom(s, i + 1), sep)
    ELSE <<s>>

\* Array.prototype.join(sep)
RECURSIVE Join(_, _)
Join(items, sep) ==
    IF items = <<>> THEN <<>>
    ELSE IF Len(items) = 1 THEN items[1]
    ELSE items[1] \o <<sep>> \o Join(Tail(items), sep)

\* String.prototype.toLowerCase on the characters of a value
LowerChar(c) == CASE c = "M" -> "m" [] c = "S" -> "s" [] c = "T" -> "t" [] OTHER -> c
LowerChars(s) == [i \in 1..Len(s) |-> LowerChar(s[i])]

\* Number(value) for a string of word and space characters: surrounding
\* blanks are ignored, the empty string is 0, decimal digits are their value
\* and a text with any other character is NaN (the texts of NextParse hold no
\* exponent, radix prefix or "Infinity")
DigitValue(c) == CHOOSE d \in 0..9 : <<"0", "1", "2", "3", "4", "5", "6", "7", "8", "9">>[d + 1] = c
RECURSIVE DecimalValue(_)
DecimalValue(s) ==
    IF s = <<>> THEN 0
    ELSE 10 * DecimalValue(SubSeq(s, 1, Len(s) - 1)) + DigitValue(s[Len(s)])
Number(value) ==
    LET t == Trim(value)
    IN  IF \A i \in 1..Len(t) : t[i] \in Digits THEN Num(DecimalValue(t)) ELSE NaN

\* String(value)
RECURSIVE DecimalDigits(_)
DecimalDigits(n) ==
    LET d == <<"0", "1", "2", "3", "4", "5", "6", "7", "8", "9">>[(n % 10) + 1]
    IN  IF n < 10 THEN <<d>> ELSE DecimalDigits(n \div 10) \o <<d>>
StringOf(v) ==
    CASE v.is = "string" -> v.text
      [] v.is = "number" -> IF v.nan THEN <<"N", "a", "N">> ELSE DecimalDigits(v.num)
      [] v.is = "boolean" -> IF v.bool THEN <<"t", "r", "u", "e">>
                                       ELSE <<"f", "a", "l", "s", "e">>
      [] v.is = "array" -> Join(v.items, ",")

\* _convertValueType(value, type); type is "undefined" when the template
\* declares no such field or no type for it
convertValueType(value, type) ==
    CASE type = "number" -> Number(value)
      [] type = "boolean" -> Bool(LowerChars(value) = <<"t", "r", "u", "e">>)
      [] type = "array" -> LET parts == Split(value, ",")
                           IN  Arr([i \in 1..Len(parts) |-> Trim(parts[i])])
      [] OTHER -> Str(value)

\* a template is the sequence of its fields in declaration order
\* (Object.entries(template.fields)); a field is its name and definition
Field(name, type, required, pattern) ==
    [name |-> name, type |-> type, required |-> required, pattern |-> pattern]
HasField(fields, name) == \E i \in 1..Len(fields) : fields[i].name = name
\* template.fields[key]?.type
FieldType(fields, key) ==
    IF HasField(fields, key)
    THEN fields[CHOOSE i \in 1..Len(fields) : fields[i].name = key].type
    ELSE "undefined"

\* the patterns the templates use, and new RegExp(pattern).test(text)
DigitsPattern == "^\\d+$"
PatternTest(pattern, text) ==
    CASE pattern = DigitsPattern -> text # <<>> /\ \A i \in 1..Len(text) : text[i] \in Digits

\* message.match(/^!(\w+)/): <<>> for null, <<group 1>> otherwise
CommandMatch(message) ==
    IF Len(message) >= 2 /\ message[1] = "!" /\ message[2] \in WordChars
    THEN <<SubSeq(message, 2, RunEnd(message, 2, WordChars))>>
    ELSE <<>>

\* /(\w+):([\w\s]+)/ matches at position i: the longest run of word
\* characters from i is followed by ":" and one word or space character
\* (a shorter run is followed by a word character, never by ":")
PairAt(s, i) ==
    LET k == RunEnd(s, i, WordChars)
    IN  /\ i <= Len(s) /\ s[i] \in WordChars
        /\ k + 2 <= Len(s) /\ s[k + 1] = ":"
        /\ s[k + 2] \in WordChars \cup SpaceChars
\* message.match(/(\w+):([\w\s]+)/g) || [], searching from position from:
\* each match takes the longest run of word and space characters after the
\* colon, and the search goes on after the match
RECURSIVE KeyValuePairs(_, _)
KeyValuePairs(s, from) ==
    IF from > Len(s) THEN <<>>
    ELSE IF PairAt(s, from)
         THEN LET e == RunEnd(s, RunEnd(s, from, WordChars) + 2, WordChars \cup SpaceChars)
              IN  <<SubSeq(s, from, e)>> \o KeyValuePairs(s, e + 1)
         ELSE KeyValuePairs(s, from + 1)

\* the loop over keyValuePairs: result[key.trim()] = converted value.trim()
RECURSIVE SetPairs(_, _, _)
SetPairs(result, pairs, fields) ==
    IF pairs = <<>> THEN result
    ELSE LET parts == Split(Head(pairs), ":")
             key == parts[1]
             value == parts[2]
         IN  SetPairs(IF key # <<>> /\ value # <<>>
                      THEN MapSet(result, Trim(key),
                                  convertValueType(Trim(value), FieldType(fields, key)))
                      ELSE result,
                      Tail(pairs), fields)

\* the messages validateParsedMessage pushes
RequiredMissing(field) == <<"Required field", field, "is missing">>
ShouldBe(field, what) == <<"Field", field, "should be", what>>
PatternMismatch(field, pattern) == <<"Field", field, "does not match pattern", pattern>>
TemplateNotFound(name) == <<"Template", name, "not found">>

\* the body of the loop of validateParsedMessage for one field
RequiredCheck(parsed, def) ==
    IF def.required /\ ~MapHas(parsed, def.name) THEN <<RequiredMissing(def.name)>> ELSE <<>>
TypeCheck(parsed, def) ==
    IF MapHas(parsed, def.name) /\ def.type # "undefined"
    THEN LET v == MapGet(parsed, def.name)
         IN  IF def.type = "number" /\ TypeOf(v) # "number"
             THEN <<ShouldBe(def.name, "a number")>>
             ELSE IF def.type = "boolean" /\ TypeOf(v) # "boolean"
             THEN <<ShouldBe(def.name, "a boolean")>>
             ELSE IF def.type = "array" /\ v.is # "array"
             THEN <<ShouldBe(def.name, "an array")>>
             ELSE <<>>
    ELSE <<>>
PatternCheck(parsed, def) ==
    IF MapHas(parsed, def.name) /\ def.pattern # "undefined"
       /\ ~PatternTest(def.pattern, StringOf(MapGet(parsed, def.name)))
    THEN <<PatternMismatch(def.name, def.pattern)>>
    ELSE <<>>
RECURSIVE FieldErrors(_, _)
FieldErrors(parsed, fields) ==
    IF fields = <<>> THEN <<>>
    ELSE RequiredCheck(parsed, Head(fields)) \o TypeCheck(parsed, Head(fields))
            \o PatternCheck(parsed, Head(fields)) \o FieldErrors(parsed, Tail(fields))

\* faulty variant: validation stops at the first error
validateParsedMessageStopsAtFirst(parsed, fields) ==
    LET errors == FieldErrors(parsed, fields)
    IN  [kind |-> "return", isValid |-> errors = <<>>,
         errors |-> SubSeq(errors, 1, IF errors = <<>> THEN 0 ELSE 1),
         fields |-> parsed]

\* validateParsedMessage(parsed, template): the parsed fields (every own
\* property of parsed but isValid and errors) with the new errors and isValid
validateParsedMessage(parsed, fields) ==
    LET errors == FieldErrors(parsed, fields)
    IN  [kind |-> "return", isValid |-> errors = <<>>, errors |-> errors, fields |-> parsed]

\* the template argument of parseMessage: a name (typeof template ===
\* 'string') or a definition
ByName(name) == [byName |-> TRUE, name |-> name, fields |-> <<>>]
ByDefinition(fields) == [byName |-> FALSE, name |-> <<>>, fields |-> fields]

\* parseMessage(message, template) with the templates added so far
parseMessage(templates, message, template) ==
    IF template.byName /\ ~MapHas(templates, template.name)
    THEN [kind |-> "return", isValid |-> FALSE,
          errors |-> <<TemplateNotFound(template.name)>>, fields |-> <<>>]
    ELSE LET fields == IF template.byName THEN MapGet(templates, template.name)
                       ELSE template.fields
             commandMatch == CommandMatch(message)
             result == IF commandMatch # <<>>
                       THEN MapSet(<<>>, <<"c", "o", "m", "m", "a", "n", "d">>,
                                   Str(commandMatch[1]))
                       ELSE <<>>
         IN  validateParsedMessage(SetPairs(result, KeyValuePairs(message, 1), fields),
                                   fields)

\* a parser with no template, before parseMessage is called
NoParse == [templates |-> <<>>, message |-> <<>>, template |-> ByName(<<>>), result |-> <<>>]
ConstructedAssistant(provider, maxThreads) ==
    /\ adapter = provider
    /\ config = [provider |-> "openai", maxThreads |-> maxThreads, status |-> "constructed",
                 restarts |-> 0, humanBefore |-> {}]
    /\ storageUp = TRUE
    /\ saved = [c \in Chats |-> <<>>]
    /\ lastGet = NoGet
    /\ functions = <<>>
    /\ handoffState = <<>>
    /\ threads = <<>>
    /\ objs = <<>>
    /\ arrs = <<>>
    /\ storage = <<>>
    /\ humanHandlers = [onHandoff |-> "null", onMessage |-> "null", onRelease |-> "null"]
    /\ middleware = <<>>
    /\ stats = [requests |-> 0, errors |-> 0]
    /\ now = 1
    /\ procs = [p \in Procs |-> IdleProc]
    /\ started = 0

ConstructedWith(provider, maxThreads) ==
    ConstructedAssistant(provider, maxThreads) /\ parser = NoParse

Constructed(provider) == ConstructedWith(provider, MaxThreads)

\* the assistant with the default storage provider
Init == Constructed("memory")

\* new AIAssistant(client, options) with options.storageProvider and
\* options.provider ("undefined" when the option is not given): the
\* constructor returns, or throws what ThreadStorage.create throws
UnsupportedStorage(name) == <<"Error: Unsupported storage provider:", name>>
OrDefault(name, default) == IF name = "undefined" THEN default ELSE name
Construct(storageProvider, provider) ==
    /\ config.status = "none"
    /\ adapter' = OrDefault(storageProvider, "memory")
    /\ config' = [config EXCEPT
                    !.provider = OrDefault(provider, "openai"),
                    !.status = IF OrDefault(storageProvider, "memory") \in Adapters
                               THEN "constructed" ELSE "threw"]
    /\ UNCHANGED <<handoffState, threads, objs, arrs, storage, humanHandlers, middleware,
                   stats, now, procs, started, functions, saved, lastGet, storageUp,
                   parser>>

\* the process ends between two calls and a new AIAssistant is constructed
\* with the same options: every field of the assistant is new, and its
\* storage holds the snapshots of the one before, unless it is the
\* in-process MemoryThreadStorage, which starts empty.  config.restarts
\* counts the restarts and config.humanBefore keeps the chats that were in
\* human mode at the last one.
Restart ==
    /\ config.status = "constructed"
    /\ config.restarts < MaxRestarts
    /\ \A p \in Procs : Free(p)
    /\ config' = [config EXCEPT !.restarts = @ + 1,
                                !.humanBefore = {c \in Chats : isInHumanMode(c)}]
    /\ handoffState' = <<>>
    /\ threads' = <<>>
    /\ functions' = <<>>
    /\ middleware' = <<>>
    /\ humanHandlers' = [onHandoff |-> "null", onMessage |-> "null", onRelease |-> "null"]
    /\ stats' = [requests |-> 0, errors |-> 0]
    /\ procs' = [p \in Procs |-> IdleProc]
    /\ storage' = IF adapter = "memory" THEN <<>> ELSE storage
    /\ objs' = <<>>
    /\ arrs' = [a \in {storage'[i].value.history : i \in 1..Len(storage')} |-> arrs[a]]
    /\ UNCHANGED <<now, started, adapter, saved, lastGet, storageUp, parser>>

\* a client calls deleteThread(chatId) of the assistant's storage
CallDeleteThread(chatId) ==
    /\ config.status = "constructed"
    /\ storage' = StorageDeleteThread(storage, chatId)
    /\ started' = started + 1
    /\ UNCHANGED <<handoffState, threads, objs, arrs, humanHandlers, middleware, stats,
                   now, procs, functions, adapter, saved, lastGet, config, storageUp,
                   parser>>

\* a client calls the adapter's saveThread(threadData) and awaits it
CallSaveThread(threadData) ==
    /\ storage' = AdapterSaveThread(adapter, storage, threadData)
    /\ saved' = [saved EXCEPT ![threadData.chatId] = <<threadData>>]
    /\ started' = started + 1
    /\ UNCHANGED <<handoffState, threads, objs, arrs, humanHandlers, middleware, stats,
                   now, procs, functions, adapter, lastGet, config, storageUp, parser>>

\* a client calls the adapter's getThread(chatId) and awaits it
CallGetThread(chatId) ==
    LET r == AdapterGetThread(adapter, storage, chatId)
    IN  /\ storage' = r.storage
        /\ lastGet' = [call |-> started + 1, chatId |-> chatId, result |-> r.data]
        /\ started' = started + 1
        /\ UNCHANGED <<handoffState, threads, objs, arrs, humanHandlers, middleware,
                       stats, now, procs, functions, adapter, saved, config, storageUp,
                       parser>>

(* inputs *)
Plain == <<"hi">>
TagHelp == <<"#human", SP, "please", SP, "help", SP, "me", SP, "now">>
Options(ignore, fallback, onError) ==
    [ignoreHandoffState |-> ignore, fallbackResponse |-> fallback, handoffOnError |-> onError,
     fallbackProvider |-> "undefined"]
Fallback == <<"Sorry, try again later.">>
HandlerSets == [{"onHandoff", "onMessage", "onRelease"} -> {"null", "ok", "throw"}]

(* Spec: calls on the same chats overlap *)
Setup ==
    /\ started = 0
    /\ \/ middleware = <<>> /\ \E k \in {"pass"} : use(k)
       \/ \E h \in {[onHandoff |-> "ok", onMessage |-> "ok", onRelease |-> "ok"]} :
            registerHumanHandlers(h)

Next ==
    \/ Setup
    \/ now < MaxTime /\ Tick
    \/ \E p \in Procs : Resume(p)
    \/ \E p \in Procs : \E ok \in BOOLEAN : ProviderAnswers(p, ok, <<"hello">>)
    \/ /\ started < MaxCalls
       /\ \E p \in Procs, c \in Chats :
            \/ \E o \in {NoOptions} : CallAsk(p, c, Plain, o)
            \/ \E m \in {Plain, TagHelp}, o \in {NoOptions} : CallProcessMessage(p, c, m, o)
            \/ CallHandoffToHuman(p, c, <<"vip">>, EmptyObject)
            \/ CallReleaseToAI(p, c, <<"solved">>, EmptyObject)

Spec == Init /\ [][Next]_vars

(* SpecSeq: the handoff state machine, one call at a time; time passes *)
(* between calls                                                       *)
SeqHandlers == {[onHandoff |-> "ok", onMessage |-> "ok", onRelease |-> "ok"],
                [onHandoff |-> "throw", onMessage |-> "throw", onRelease |-> "throw"],
                [onHandoff |-> "null", onMessage |-> "void", onRelease |-> "null"]}

SetupSeq ==
    /\ started = 0
    /\ \/ middleware = <<>> /\ use("pass")
       \/ \E h \in SeqHandlers : registerHumanHandlers(h)

NextSeq ==
    \/ SetupSeq
    \/ Free(1) /\ now < MaxTime /\ Tick
    \/ Resume(1)
    \/ \E ok \in BOOLEAN : ProviderAnswers(1, ok, <<"hello">>)
    \/ /\ started < MaxSeqCalls
       /\ \/ \E i \in BOOLEAN, f \in {UndefinedText, Fallback} :
                    CallAsk(1, "c1", Plain, Options(i, f, FALSE))
          \/ \E m \in {Plain, TagHelp} : CallProcessMessage(1, "c1", m, NoOptions)
          \/ CallHandoffToHuman(1, "c1", EmptyText, EmptyObject)
          \/ \E c \in Chats : CallHandoffToHuman(1, c, <<"vip">>, [priority |-> <<"high">>])
          \/ CallReleaseToAI(1, "c1", EmptyText, EmptyObject)
          \/ CallReleaseToAI(1, "c1", <<"solved">>, [ticketId |-> <<"12345">>])

SpecSeq == Init /\ [][NextSeq]_vars

(* SpecDispatch: processMessage on one chat, one call at a time, with the *)
(* messages and provider answers that carry handoff tags                 *)
TagUpper == <<"#HUMAN">>
TagGlued == <<"#human", "s", SP, "help">>
TagLines == <<"ok", SP, "#Agent", SP, "refund", NL, "thanks">>
AiTagReasoned == <<"Sure!", SP, "[", "handoff", ":", SP, "billing", SP, "issue", "]">>
AiTagBare == <<"One", SP, "moment", SP, "[", "HANDOFF", "]">>
DispatchMessages == {Plain, TagHelp, TagUpper, TagGlued, TagLines}
DispatchAnswers == {<<"hello">>, AiTagReasoned, AiTagBare}

SetupDispatch ==
    /\ started = 0
    /\ \/ middleware = <<>> /\ use("throw")
       \/ registerHumanHandlers([onHandoff |-> "ok", onMessage |-> "ok", onRelease |-> "ok"])

NextDispatch ==
    \/ SetupDispatch
    \/ Free(1) /\ now < MaxTime /\ Tick
    \/ Resume(1)
    \/ \E r \in DispatchAnswers : ProviderAnswers(1, TRUE, r)
    \/ ProviderAnswers(1, FALSE, NullText)
    \/ /\ started < MaxSeqCalls
       /\ \/ \E m \in DispatchMessages, e \in BOOLEAN :
                    CallProcessMessage(1, "c1", m, Options(FALSE, UndefinedText, e))
          \/ CallProcessMessage(1, "c1", Plain, Options(FALSE, Fallback, TRUE))
          \/ CallReleaseToAI(1, "c1", <<"solved">>, EmptyObject)

SpecDispatch == Init /\ [][NextDispatch]_vars

(* SpecHist: many asks on one chat, one call at a time *)
NextHist ==
    \/ Resume(1)
    \/ \E ok \in BOOLEAN : ProviderAnswers(1, ok, <<"hello">>)
    \/ /\ started < MaxHistCalls
       /\ CallAsk(1, "c1", Plain, NoOptions)

SpecHist == Init /\ [][NextHist]_vars

(* SpecEvict: asks on two chats, one call at a time, every call with its  *)
(* own prompt; time passes between calls, far enough for snapshots to    *)
(* expire                                                                *)
Question(n) == <<"question", ToString(n)>>

NextEvict ==
    \/ Free(1) /\ Tick
    \/ Resume(1)
    \/ \E ok \in BOOLEAN : ProviderAnswers(1, ok, <<"hello">>)
    \/ /\ started < MaxSeqCalls
       /\ \E c \in Chats : CallAsk(1, c, Question(started + 1), NoOptions)

SpecEvict == Init /\ [][NextEvict]_vars

(* SpecKeep: asks, handoffs and releases on two chats and deletions from *)
(* storage, one call at a time; time passes between calls               *)
NextKeep ==
    \/ Free(1) /\ Tick
    \/ Resume(1)
    \/ \E ok \in BOOLEAN : ProviderAnswers(1, ok, <<"hello">>)
    \/ /\ started < MaxSeqCalls
       /\ \E c \in Chats :
            \/ CallAsk(1, c, Question(started + 1), NoOptions)
            \/ CallHandoffToHuman(1, c, <<"vip">>, EmptyObject)
            \/ CallReleaseToAI(1, c, <<"solved">>, EmptyObject)
            \/ Free(1) /\ CallDeleteThread(c)

SpecKeep == Init /\ [][NextKeep]_vars

(* SpecParse: a TemplateParser, the templates added to it and one message *)
(* parsed against a template given by name or by definition              *)
Name_command == <<"c", "o", "m", "m", "a", "n", "d">>
Name_order == <<"o", "r", "d", "e", "r">>
Name_item == <<"i", "t", "e", "m">>
Name_quantity == <<"q", "u", "a", "n", "t", "i", "t", "y">>
Name_address == <<"a", "d", "d", "r", "e", "s", "s">>
Name_a == <<"a">>
\* the template and the messages of the documentation
OrderTemplate ==
    <<Field(Name_command, "string", TRUE, "undefined"),
      Field(Name_item, "string", TRUE, "undefined"),
      Field(Name_quantity, "number", TRUE, "undefined"),
      Field(Name_address, "string", FALSE, "undefined")>>
OrderMessage ==
    <<"!", "o", "r", "d", "e", "r", " ", "i", "t", "e", "m", ":", "p", "i", "z", "z", "a", " ",
      "q", "u", "a", "n", "t", "i", "t", "y", ":", "2", " ",
      "a", "d", "d", "r", "e", "s", "s", ":", "1", "2", "3", " ", "M", "a", "i", "n", " ", "S", "t">>
OrderItemOnly == <<"!", "o", "r", "d", "e", "r", " ", "i", "t", "e", "m", ":", "p", "i", "z", "z", "a">>
\* templates with a command and one field a, over every declared type
TinyTemplates ==
    {<<Field(Name_command, ct, TRUE, "undefined"), Field(Name_a, t, r, p)>> :
        ct \in {"string", "number"},
        t \in {"undefined", "string", "number", "boolean", "array"},
        r \in BOOLEAN, p \in {"undefined", DigitsPattern}}
Templates == {OrderTemplate} \cup TinyTemplates
TemplateNames == {Name_order, Name_a}
MsgChars == {"!", "a", "1", ":", SP}
Messages == UNION {[1..n -> MsgChars] : n \in 0..MaxMsgLen} \cup {OrderMessage, OrderItemOnly}

InitParse ==
    /\ ConstructedAssistant("memory", MaxThreads)
    /\ parser \in [templates : {<<>>}, message : Messages,
                   template : {ByName(n) : n \in TemplateNames}
                                \cup {ByDefinition(t) : t \in Templates},
                   result : {<<>>}]

\* addTemplate(name, template)
AddTemplate(name, template) ==
    /\ parser' = [parser EXCEPT !.templates = MapSet(@, name, template)]
    /\ UNCHANGED <<handoffState, threads, objs, arrs, storage, humanHandlers, middleware,
                   stats, now, procs, started, functions, adapter, saved, lastGet,
                   config, storageUp>>

\* a client calls parseMessage(message, template)
CallParseMessage ==
    /\ parser' = [parser EXCEPT !.result =
                        <<parseMessage(parser.templates, parser.message, parser.template)>>]
    /\ UNCHANGED <<handoffState, threads, objs, arrs, storage, humanHandlers, middleware,
                   stats, now, procs, started, functions, adapter, saved, lastGet,
                   config, storageUp>>

NextParse ==
    \/ AddTemplate(Name_order, OrderTemplate)
    \/ AddTemplate(Name_a, <<Field(Name_command, "number", TRUE, "undefined"),
                              Field(Name_a, "string", TRUE, DigitsPattern)>>)
    \/ CallParseMessage

SpecParse == InitParse /\ [][NextParse]_vars

(* SpecRestart: handoffs and asks on two chats of an assistant over       *)
(* MongoDB storage, a restart, and asks and releases after it            *)
InitRestart == ConstructedWith("mongodb", MaxThreads)

NextRestart ==
    \/ Free(1) /\ Tick
    \/ Resume(1)
    \/ ProviderAnswers(1, TRUE, <<"hello">>)
    \/ Restart
    \/ /\ started < MaxSeqCalls
       /\ \E c \in Chats :
            \/ config.restarts = 0 /\ CallHandoffToHuman(1, c, <<"vip">>, EmptyObject)
            \/ CallAsk(1, c, Question(started + 1), NoOptions)
            \/ config.restarts > 0 /\ CallReleaseToAI(1, c, <<"solved">>, EmptyObject)

SpecRestart == InitRestart /\ [][NextRestart]_vars

(* SpecAskRace: two callers ask on one chat; the calls may overlap *)
NextAskRace ==
    \/ \E p \in Procs : Resume(p)
    \/ \E p \in Procs, ok \in BOOLEAN : ProviderAnswers(p, ok, <<"hello">>)
    \/ /\ started < MaxCalls
       /\ \E p \in Procs : CallAsk(p, "c1", Question(started + 1), NoOptions)

SpecAskRace == ConstructedWith("memory", LruMaxThreads) /\ [][NextAskRace]_vars

(* SpecRelease: one handoff of c1, then releases of c1 that may overlap, *)
(* one per caller; a handoff of c2 in between evicts the thread of c1    *)
NextRelease ==
    \/ SetupSeq
    \/ \E p \in Procs : Resume(p)
    \/ /\ started = 0
       /\ CallHandoffToHuman(1, "c1", <<"vip">>, [priority |-> <<"high">>])
    \/ /\ started > 0 /\ started < MaxReleaseCalls
       /\ \/ /\ procs[1].op # "releaseToAI" /\ ~MapHas(handoffState, "c2")
             /\ CallHandoffToHuman(1, "c2", <<"vip">>, EmptyObject)
          \/ \E p \in Procs :
                /\ procs[p].op # "releaseToAI"
                /\ CallReleaseToAI(p, "c1", <<"solved">>, EmptyObject)

SpecRelease == Init /\ [][NextRelease]_vars

(* SpecOutage: handoffs and releases, one call at a time, over a storage *)
(* backend that comes and goes                                           *)
NextOutage ==
    \/ \E up \in BOOLEAN : StorageGoes(up)
    \/ Resume(1)
    \/ /\ started < MaxOutageCalls
       /\ \E c \in Chats :
             \/ CallHandoffToHuman(1, c, <<"vip">>, EmptyObject)
             \/ CallReleaseToAI(1, c, <<"solved">>, EmptyObject)

SpecOutage == Init /\ [][NextOutage]_vars

(* SpecLoop: ask with function calls and fallbacks, one call at a time *)
Toolbox == <<[key |-> "getWeather", value |-> "ok"], [key |-> "charge", value |-> "throw"]>>
FromFallback == <<"answer of the fallback provider">>
LoopOptions ==
    {[NoOptions EXCEPT !.fallbackResponse = f, !.fallbackProvider = fp] :
        f \in {UndefinedText, Fallback}, fp \in {"undefined", "anthropic", "unknown"}}

SetupLoop ==
    /\ started = 0
    /\ functions = <<>>
    /\ registerFunctions(Toolbox)

NextLoop ==
    \/ SetupLoop
    \/ Resume(1)
    \/ \E ok \in BOOLEAN : ProviderAnswers(1, ok, <<"hello">>)
    \/ \E name \in {"getWeather", "charge", "refund"}, a \in {ArgsJson, ArgsBroken} :
            ProviderRequestsFunction(1, name, a)
    \/ \E ok \in BOOLEAN : FallbackAnswers(1, ok, FromFallback)
    \/ /\ started < MaxLoopCalls
       /\ \E o \in LoopOptions : CallAsk(1, "c1", Plain, o)

SpecLoop == Init /\ [][NextLoop]_vars

(* SpecLru: asks on more chats than the working set holds, one call at a *)
(* time; time passes between calls and the storage backend comes and goes *)
LruChatNames == <<"c1", "c2", "c3", "c4", "c5", "c6">>
LruChats == {LruChatNames[i] : i \in 1..(LruMaxThreads + 1)}
InitLru == ConstructedWith("memory", LruMaxThreads)

NextLru ==
    \/ Free(1) /\ Tick
    \/ StorageGoes(FALSE)
    \/ Free(1) /\ StorageGoes(TRUE)
    \/ Resume(1)
    \/ ProviderAnswers(1, TRUE, <<"hello">>)
    \/ /\ started < MaxLruCalls
       /\ \E c \in LruChats : CallAsk(1, c, Plain, NoOptions)

SpecLru == InitLru /\ [][NextLru]_vars

(* SpecLruRace: the assistant of SpecLru with calls that overlap: asks on *)
(* c1 by the first caller, asks on any chat by the others               *)
NextLruRace ==
    \/ Tick
    \/ \E p \in Procs : Resume(p)
    \/ \E p \in Procs : ProviderAnswers(p, TRUE, <<"hello">>)
    \/ /\ started < MaxRaceCalls
       /\ \/ CallAsk(1, "c1", Plain, NoOptions)
          \/ \E p \in Procs \ {1}, c \in LruChats : CallAsk(p, c, Plain, NoOptions)

SpecLruRace == InitLru /\ [][NextLruRace]_vars

(* SpecCtor: construction with the storage and provider names of the *)
(* options, then calls, one at a time                                *)
InitCtor ==
    /\ adapter = "none"
    /\ config = [provider |-> "none", maxThreads |-> MaxThreads, status |-> "none",
                 restarts |-> 0, humanBefore |-> {}]
    /\ storageUp = TRUE
    /\ parser = NoParse
    /\ saved = [c \in Chats |-> <<>>]
    /\ lastGet = NoGet
    /\ functions = <<>>
    /\ handoffState = <<>>
    /\ threads = <<>>
    /\ objs = <<>>
    /\ arrs = <<>>
    /\ storage = <<>>
    /\ humanHandlers = [onHandoff |-> "null", onMessage |-> "null", onRelease |-> "null"]
    /\ middleware = <<>>
    /\ stats = [requests |-> 0, errors |-> 0]
    /\ now = 1
    /\ procs = [p \in Procs |-> IdleProc]
    /\ started = 0

NextCtor ==
    \/ \E sp \in {"undefined", "memory", "redis"}, bp \in {"undefined", "anthropic", "gpt"} :
            Construct(sp, bp)
    \/ Resume(1)
    \/ \E ok \in BOOLEAN : ProviderAnswers(1, ok, <<"hello">>)
    \/ /\ started < MaxCtorCalls
       /\ \/ \E f \in {UndefinedText, Fallback} :
                CallAsk(1, "c1", Plain, Options(FALSE, f, FALSE))
          \/ CallHandoffToHuman(1, "c1", EmptyText, EmptyObject)
          \/ CallReleaseToAI(1, "c1", EmptyText, EmptyObject)

SpecCtor == InitCtor /\ [][NextCtor]_vars

(* SpecStore: each storage adapter on its own, one call at a time *)
InitStore == \E a \in Adapters : Constructed(a)

StoreInputs ==
    {[chatId |-> c, context |-> x.context, history |-> x.history, lastUsed |-> t] :
        c \in Chats, t \in {1, now},
        x \in {[context |-> EmptyObject, history |-> <<>>],
               [context |-> [topic |-> <<"billing">>],
                history |-> <<[role |-> "user", content |-> Plain]>>]}}

NextStore ==
    \/ Tick
    \/ /\ started < MaxStoreCalls
       /\ \/ \E threadData \in StoreInputs : CallSaveThread(threadData)
          \/ \E c \in Chats : CallGetThread(c)

SpecStore == InitStore /\ [][NextStore]_vars

(* SpecMw: ask behind every chain of up to MaxMiddleware steps *)
MwKinds == {"pass", "short", "empty", "throw"}

SetupMw ==
    /\ started = 0
    /\ \E k \in MwKinds : use(k)

NextMw ==
    \/ SetupMw
    \/ Resume(1)
    \/ \E ok \in BOOLEAN : ProviderAnswers(1, ok, <<"hello">>)
    \/ /\ started < MaxMwCalls
       /\ \E f \in {UndefinedText, Fallback} :
            CallAsk(1, "c1", Plain, Options(FALSE, f, FALSE))

SpecMw == Init /\ [][NextMw]_vars

(* SpecNext: ask behind chains whose steps may await next() two times *)
NextKinds == {"pass", "twice", "short", "throw"}

NextTwice ==
    \/ started = 0 /\ \E k \in NextKinds : use(k)
    \/ Resume(1)
    \/ \E ok \in BOOLEAN : ProviderAnswers(1, ok, <<"hello">>)
    \/ /\ started < MaxMwCalls
       /\ \E f \in {UndefinedText, Fallback} :
            CallAsk(1, "c1", Plain, Options(FALSE, f, FALSE))

SpecNext == Init /\ [][NextTwice]_vars

(* ------------------------------- claims ------------------------------- *)
Done(p) == procs[p].pc = "done"
\* this step starts a call of p
Starts(p, op) == procs'[p].id # procs[p].id /\ procs'[p].op = op
\* this step is a step of a call of p
StepOf(p, op) == procs'[p] # procs[p] /\ procs'[p].op = op
EntriesOf(m, k) == {i \in 1..Len(m) : m[i].key = k}
Returned(p, v) == procs[p].result.kind = "return" /\ procs[p].result.value = v
Threw(p, e) == procs[p].result.kind = "throw" /\ procs[p].result.value = e

\* C1: ask on a chat in HUMAN_MODE without options.ignoreHandoffState is over
\* in the step that starts it: it throws the human-mode error, whatever
\* options.fallbackResponse is, no middleware step has run, the provider was
\* not called, and threads, storage, statistics and handoff state are as
\* they were.
C1_AskInHumanModeFailsFast ==
    [][\A p \in Procs :
        (/\ Starts(p, "ask")
         /\ isInHumanMode(procs'[p].chatId)
         /\ ~procs'[p].options.ignoreHandoffState)
        => /\ procs'[p].pc = "done"
           /\ procs'[p].result = [kind |-> "throw", value |-> HumanModeError]
           /\ procs'[p].mwRan = <<>>
           /\ procs'[p].backendCalls = 0
           /\ UNCHANGED <<handoffState, threads, objs, arrs, storage, stats>>]_vars

C1_Witness ==
    /\ Done(1) /\ procs[1].op = "ask" /\ procs[1].pre.human
    /\ procs[1].options.fallbackResponse = Fallback
    /\ ~procs[1].options.ignoreHandoffState
    /\ Threw(1, HumanModeError)
    /\ middleware # <<>>

\* what processMessage hands back from the onMessage handler
HumanResponse ==
    CASE humanHandlers["onMessage"] = "ok" -> HandlerResponse
      [] humanHandlers["onMessage"] = "void" -> UndefinedText
      [] OTHER -> NullText

\* C3: every step of a processMessage call that found its chat in HUMAN_MODE
\* leaves handoff state, threads (history, context) and storage as they
\* were and calls no provider; the call returns type 'human' with the
\* onMessage handler's response (null when there is none), whatever the text.
C3_HumanModeRoutesToHuman ==
    [][\A p \in Procs :
        (StepOf(p, "processMessage") /\ procs'[p].pre.human)
        => /\ UNCHANGED <<handoffState, threads, objs, arrs, storage, stats>>
           /\ procs'[p].backendCalls = 0
           /\ procs'[p].pc \in {"pm_human", "done"}
           /\ procs'[p].pc = "done" =>
                /\ procs'[p].result.kind = "return"
                /\ procs'[p].result.value.type = "human"
                /\ procs'[p].result.value.response = HumanResponse
                /\ procs'[p].result.value.handoffState
                        = HandoffStateGet(handoffState, procs'[p].chatId)]_vars

C3_Witness ==
    /\ Done(1) /\ procs[1].op = "processMessage" /\ procs[1].pre.human
    /\ procs[1].message = TagHelp
    /\ procs[1].result.value.type = "human"
    /\ procs[1].result.value.response = HandlerResponse

\* C4: releaseToAI on a chat in AI_MODE is over in the step that starts it:
\* it returns false, calls no handler and changes nothing.
C4_ReleaseInAiModeIsNoOp ==
    [][\A p \in Procs :
        (Starts(p, "releaseToAI") /\ ~isInHumanMode(procs'[p].chatId))
        => /\ procs'[p].pc = "done"
           /\ procs'[p].result = [kind |-> "return", value |-> FALSE]
           /\ procs'[p].notes = <<>>
           /\ UNCHANGED <<handoffState, threads, objs, arrs, storage, stats>>]_vars

\* the second of two releases: the first one left its summary in the thread
C4_Witness ==
    /\ Done(1) /\ procs[1].op = "releaseToAI" /\ Returned(1, FALSE)
    /\ started = 3
    /\ MapHas(threads, "c1")
    /\ "humanInteractionSummary" \in DOMAIN objs[MapGet(threads, "c1")].context
    /\ procs[1].chatId = "c1"

\* C5: handoffToHuman on a chat already in HUMAN_MODE returns true; the chat
\* then has exactly one HandoffState, with the reason, metadata and time of
\* this call, and a registered onHandoff handler was called with it.
C5_RepeatedHandoffOverwrites ==
    \A p \in Procs :
        (Done(p) /\ procs[p].op = "handoffToHuman" /\ procs[p].pre.human)
        => LET c == procs[p].chatId
               e == MapGet(handoffState, c)
           IN  /\ Returned(p, TRUE)
               /\ Cardinality(EntriesOf(handoffState, c)) = 1
               /\ e.isHumanMode
               /\ e.reason = procs[p].reason
               /\ e.metadata = procs[p].metadata
               /\ e.handoffTime = procs[p].pre.now
               /\ HandlerRuns("onHandoff") =>
                    procs[p].notes = <<[handler |-> "onHandoff",
                                        args |-> [chatId |-> c, handoffState |-> e]]>>

C5_Witness ==
    /\ Done(1) /\ procs[1].op = "handoffToHuman" /\ procs[1].pre.human
    /\ procs[1].pre.handoffState.reason # procs[1].reason
    /\ procs[1].pre.handoffState.handoffTime < procs[1].pre.now
    /\ HandlerRuns("onHandoff")
    /\ Returned(1, TRUE)

\* C6: with throwing handlers registered, handoffToHuman returns true and
\* the chat is in HUMAN_MODE, releaseToAI on a chat in HUMAN_MODE returns
\* true and the chat is in AI_MODE, processMessage on a chat in HUMAN_MODE
\* returns type 'human' with response null; no call ends with an error.
C6_ThrowingHandlersAreSwallowed ==
    \A p \in Procs :
        (Done(p) /\ \A h \in DOMAIN humanHandlers : HandlerThrows(h))
        => /\ procs[p].op = "handoffToHuman" =>
                /\ Returned(p, TRUE) /\ isInHumanMode(procs[p].chatId)
                /\ Len(procs[p].notes) = 1
           /\ (procs[p].op = "releaseToAI" /\ procs[p].pre.human) =>
                /\ Returned(p, TRUE) /\ ~isInHumanMode(procs[p].chatId)
                /\ Len(procs[p].notes) = 1
           /\ (procs[p].op = "processMessage" /\ procs[p].pre.human) =>
                /\ procs[p].result.kind = "return"
                /\ procs[p].result.value.type = "human"
                /\ procs[p].result.value.response = NullText
                /\ Len(procs[p].notes) = 1

C6_Witness ==
    /\ Done(1) /\ procs[1].op = "releaseToAI" /\ procs[1].pre.human
    /\ HandlerThrows("onRelease") /\ HandlerThrows("onHandoff")
    /\ Len(procs[1].notes) = 1
    /\ Returned(1, TRUE)

(* processMessage: handoff commands *)
DefaultUserReason == <<"User requested human assistance">>
IsUserTag(t) == \E u \in UserTags : ToLowerCase(t) = u
FirstTag(m) == CHOOSE i \in 1..Len(m) : IsUserTag(m[i]) /\ \A j \in 1..(i - 1) : ~IsUserTag(m[j])
RECURSIVE TrimLeft(_)
TrimLeft(t) == IF t # <<>> /\ IsSpace(t[1]) THEN TrimLeft(Tail(t)) ELSE t
\* the text that follows the first tag, without the blanks that separate them
TextAfterTag(m) == TrimLeft(SubSeqFrom(m, FirstTag(m) + 1))
\* <<i, k>>: a tag at i, only blanks (at least one) from i+1 to k-1, and at
\* k a character that is not a line break
TagThenText(m) ==
    {ik \in (1..Len(m)) \X (1..Len(m)) :
        /\ IsUserTag(m[ik[1]])
        /\ ik[2] >= ik[1] + 2
        /\ \A j \in (ik[1] + 1)..(ik[2] - 1) : IsSpace(m[j])
        /\ m[ik[2]] # NL}
\* the rest of the line from k on
LineFrom(m, k) ==
    SubSeq(m, k, CHOOSE e \in (k - 1)..Len(m) :
                    /\ \A j \in k..e : m[j] # NL
                    /\ e = Len(m) \/ m[e + 1] = NL)
C7_Reason(m) ==
    IF TagThenText(m) = {} THEN DefaultUserReason
    ELSE LET i == CHOOSE x \in {ik[1] : ik \in TagThenText(m)} :
                    \A ik \in TagThenText(m) : x <= ik[1]
             k == CHOOSE x \in {ik[2] : ik \in {jk \in TagThenText(m) : jk[1] = i}} :
                    \A ik \in TagThenText(m) : ik[1] = i => ik[2] <= x
         IN  LineFrom(m, k)

TagCall(p) ==
    /\ Done(p) /\ procs[p].op = "processMessage"
    /\ ~procs[p].pre.human /\ HasUserTag(procs[p].message)
TagHandoffDone(p) ==
    /\ procs[p].result.kind = "return"
    /\ procs[p].result.value.type = "handoff"
    /\ procs[p].result.value.response = TransferMessage
    /\ procs[p].backendCalls = 0
    /\ isInHumanMode(procs[p].chatId)

\* C7 as stated: the reason is the text following the tag, the default reason
\* when no text follows
C7_ReasonIsTextAfterTag ==
    \A p \in Procs : TagCall(p) =>
        /\ TagHandoffDone(p)
        /\ MapGet(handoffState, procs[p].chatId).reason =
             IF TextAfterTag(procs[p].message) = <<>> THEN DefaultUserReason
             ELSE TextAfterTag(procs[p].message)

\* C7 (amended): processMessage on a chat in AI_MODE with a message that
\* contains #handoff, #human or #agent in any letter case returns type
\* 'handoff' without calling the provider and leaves the chat in HUMAN_MODE;
\* the reason is the rest of the line after the first tag that is followed
\* by blanks and then a character, taken from that character on, and the
\* default reason when there is no such tag.
C7_TagHandoffReason ==
    \A p \in Procs : TagCall(p) =>
        /\ TagHandoffDone(p)
        /\ MapGet(handoffState, procs[p].chatId).reason = C7_Reason(procs[p].message)

C7_Witness ==
    /\ TagCall(1) /\ procs[1].message = TagLines
    /\ MapGet(handoffState, "c1").reason = <<"refund">>
    /\ procs[1].result.value.type = "handoff"

\* C8: a provider answer 'Sure! [handoff: billing issue]' makes processMessage
\* return type 'handoff' with response 'Sure!' and leaves the chat in
\* HUMAN_MODE with reason 'billing issue'.
C8_AiTagWithReasonHandsOff ==
    \A p \in Procs :
        (/\ Done(p) /\ procs[p].op = "processMessage" /\ ~procs[p].pre.human
         /\ procs[p].provider = "ok" /\ procs[p].answer = AiTagReasoned)
        => /\ procs[p].result.kind = "return"
           /\ procs[p].result.value.type = "handoff"
           /\ procs[p].result.value.response = <<"Sure!">>
           /\ isInHumanMode(procs[p].chatId)
           /\ MapGet(handoffState, procs[p].chatId).reason = <<"billing", SP, "issue">>

\* C9: when AI processing inside processMessage fails (the provider fails
\* or a middleware step throws, and there is no fallback response), then
\* with options.handoffOnError the call returns type 'handoff' with the
\* apology and the error text and the chat is in HUMAN_MODE; without it the
\* error reaches the caller and the chat stays in AI_MODE.
AiProcessingFails(p) ==
    /\ ~procs[p].pre.human /\ ~HasUserTag(procs[p].message)
    /\ ~Truthy(procs[p].options.fallbackResponse)
    /\ procs[p].provider = "failed" \/ \E i \in 1..Len(middleware) : middleware[i] = "throw"
C9_ErrorHandoffOrPropagate ==
    \A p \in Procs :
        (Done(p) /\ procs[p].op = "processMessage")
        => /\ procs[p].caught <=> AiProcessingFails(p)
           /\ procs[p].caught =>
                LET c == procs[p].chatId
                IN  IF procs[p].options.handoffOnError
                    THEN /\ isInHumanMode(c)
                         /\ MapGet(handoffState, c).reason = <<"AI processing error">>
                         /\ procs[p].result.kind = "return"
                         /\ procs[p].result.value =
                              [type |-> "handoff", response |-> ApologyMessage,
                               handoffState |-> MapGet(handoffState, c),
                               error |-> IF procs[p].provider = "failed"
                                         THEN BackendError ELSE MiddlewareError]
                    ELSE /\ ~isInHumanMode(c)
                         /\ procs[p].result.kind = "throw"
                         /\ procs[p].result.value =
                              IF procs[p].provider = "failed"
                              THEN BackendError ELSE MiddlewareError

C9_Witness ==
    /\ Done(1) /\ procs[1].op = "processMessage" /\ procs[1].caught
    /\ procs[1].provider = "failed"
    /\ procs[1].options.handoffOnError
    /\ procs[1].result.value.type = "handoff"
    /\ isInHumanMode("c1")

\* C10: between ask calls, succeeded or failed, every thread's history
\* holds at most 20 entries.
C10_HistoryBound ==
    (\A p \in Procs : Free(p))
    => \A t \in DOMAIN objs : Len(arrs[objs[t].history]) <= HistoryLimit

\* C2: no call hands an AI-generated response (processMessage type 'ai', or
\* ask without ignoreHandoffState resolved with the provider's answer) to
\* its caller at a moment when the chat is in HUMAN_MODE.
AiResponded(pr) ==
    /\ pr.pc = "done" /\ pr.provider = "ok" /\ pr.result.kind = "return"
    /\ \/ pr.op = "processMessage" /\ pr.result.value.type = "ai"
       \/ pr.op = "ask" /\ ~pr.options.ignoreHandoffState
C2_NoAiResponseInHumanMode ==
    [][\A p \in Procs :
        (procs'[p] # procs[p] /\ AiResponded(procs'[p]))
        => ~IsInHumanModeIn(handoffState', procs'[p].chatId)]_vars


(* middleware *)
\* the first step that does not call next(), 0 when every step calls it
FirstStop(mw) ==
    IF \A i \in 1..Len(mw) : mw[i] = "pass" THEN 0
    ELSE CHOOSE i \in 1..Len(mw) : mw[i] # "pass" /\ \A j \in 1..(i - 1) : mw[j] = "pass"
UpTo(n) == [i \in 1..n |-> i]
DownFrom(n) == [i \in 1..n |-> n + 1 - i]
AskDone(p) == Done(p) /\ procs[p].op = "ask"

\* C11: when the first step that does not call next() has set
\* context.response, no later step has run, the provider was never called and
\* ask returned the response that step set.
C11_ShortCircuitSkipsThread ==
    \A p \in Procs :
        (AskDone(p) /\ FirstStop(middleware) # 0
         /\ middleware[FirstStop(middleware)] \in {"short", "empty"})
        => /\ procs[p].mwRan = UpTo(FirstStop(middleware))
           /\ procs[p].backendCalls = 0
           /\ Returned(p, IF middleware[FirstStop(middleware)] = "short"
                          THEN BlockedResponse ELSE EmptyText)

\* C12: when every registered step awaits next(), the code before next() has
\* run in registration order and the code after next() in the reverse order,
\* in every ask that was not refused for human mode.
C12_OnionOrder ==
    \A p \in Procs :
        (AskDone(p) /\ FirstStop(middleware) = 0
         /\ (procs[p].pre.human => procs[p].options.ignoreHandoffState))
        => /\ procs[p].mwRan = UpTo(Len(middleware))
           /\ procs[p].mwAfter = DownFrom(Len(middleware))

C12_Witness ==
    /\ AskDone(1) /\ Len(middleware) = 3 /\ FirstStop(middleware) = 0
    /\ procs[1].mwRan = <<1, 2, 3>> /\ procs[1].mwAfter = <<3, 2, 1>>
    /\ procs[1].result.kind = "return"

HistoryOfChat(c) ==
    IF MapHas(threads, c) THEN arrs[objs[MapGet(threads, c)].history]
    ELSE IF MapHas(storage, c) THEN arrs[MapGet(storage, c).history]
    ELSE <<>>
QuestionsOf(c) ==
    LET h == HistoryOfChat(c) IN {n \in 1..started : \E i \in 1..Len(h) :
                                    h[i] = [role |-> "user", content |-> Question(n)]}
InAskedOrder(h) ==
    \A i, j \in 1..Len(h) :
        (i < j /\ h[i].role = "user" /\ h[j].role = "user")
        => \E m, n \in 1..started :
              m < n /\ h[i].content = Question(m) /\ h[j].content = Question(n)

\* C14: with maxThreads = 1 and asks on two chats, as long as no snapshot can
\* have expired, between calls at most one thread is in memory, every chat
\* whose thread was dropped has its snapshot in storage, and the histories of
\* the chats (in memory or reloaded from storage) together hold the prompt of
\* every ask made so far, each chat's in the order asked: no eviction and no
\* reload loses history.
C14_EvictedThreadIsReloaded ==
    (Free(1) /\ MaxThreads = 1 /\ now <= Ttl + 1)
    => /\ Len(threads) <= 1
       /\ QuestionsOf("c1") \cup QuestionsOf("c2") = 1..started
       /\ QuestionsOf("c1") \cap QuestionsOf("c2") = {}
       /\ \A c \in Chats : InAskedOrder(HistoryOfChat(c))

C14_Witness ==
    /\ AskDone(1) /\ procs[1].chatId = "c1" /\ procs[1].id = 3
    /\ procs[1].result.kind = "return"
    /\ MapKeys(threads) = {"c1"}
    /\ QuestionsOf("c1") = {1, 3}
    /\ Len(HistoryOfChat("c1")) = 4
    /\ MapHas(storage, "c2") /\ QuestionsOf("c2") = {2}

\* C15: the number of threads held in memory never exceeds maxThreads.
C15_WorkingSetBounded == Len(threads) <= MaxThreads


(* storage adapters *)
\* this step is a getThread(c) call
GetStep(c) == lastGet'.call # lastGet.call /\ lastGet'.chatId = c
LastUsedIn(st, c) == GetTime(MapGet(st, c).lastUsed)

\* C16: with every adapter, getThread of a chat whose last saved snapshot has
\* not expired returns a snapshot with the context, history and lastUsed of
\* that last saved snapshot.
C16_RoundTrip ==
    [][\A c \in Chats :
        (GetStep(c) /\ saved[c] # <<>> /\ now - saved[c][1].lastUsed <= Ttl)
        => /\ lastGet'.result # <<>>
           /\ lastGet'.result[1].context = saved[c][1].context
           /\ lastGet'.result[1].history = saved[c][1].history
           /\ lastGet'.result[1].lastUsed = saved[c][1].lastUsed]_vars

\* C17: with the memory and the MongoDB adapter, getThread of a stored
\* snapshot whose lastUsed is more than the TTL ago returns null and removes
\* the snapshot, so that the next reads find nothing; getThread of a stored
\* snapshot that is not older than the TTL returns it and leaves the store as
\* it is.
C17_LazyExpiry ==
    [][\A c \in Chats :
        (GetStep(c) /\ adapter \in {"memory", "mongodb"})
        => IF MapHas(storage, c)
           THEN IF now - LastUsedIn(storage, c) > Ttl
                THEN /\ lastGet'.result = <<>>
                     /\ ~MapHas(storage', c)
                     /\ \A d \in Chats \ {c} :
                            MapHas(storage', d) = MapHas(storage, d)
                ELSE /\ lastGet'.result = <<MapGet(storage, c)>>
                     /\ storage' = storage
           ELSE lastGet'.result = <<>> /\ storage' = storage]_vars

C17_Witness ==
    /\ adapter = "mongodb" /\ lastGet.call = 2 /\ lastGet.chatId = "c1"
    /\ lastGet.result = <<>>
    /\ saved["c1"] # <<>> /\ now - saved["c1"][1].lastUsed > Ttl
    /\ ~MapHas(storage, "c1")


(* the generation loop: fallbacks and function calls (SpecLoop) *)
Last(s) == s[Len(s)]
OnlyPrimary(cs) == \A i \in 1..Len(cs) : cs[i].to = "primary"
\* the last call went to the fallback provider, with the system prompt and
\* the messages of the call to the provider before it
FallbackRetries(cs) ==
    /\ Len(cs) >= 2
    /\ cs[Len(cs)].to = "fallback"
    /\ OnlyPrimary(SubSeq(cs, 1, Len(cs) - 1))
    /\ cs[Len(cs)].systemPrompt = cs[Len(cs) - 1].systemPrompt
    /\ cs[Len(cs)].messages = cs[Len(cs) - 1].messages
\* what ask does with the error e that reached the catch block of _callAI
FallbackPath(p, e) ==
    LET o == procs[p].options
    IN  IF Truthy(o.fallbackResponse)
        THEN /\ Returned(p, o.fallbackResponse)
             /\ procs[p].fallback = "none"
             /\ OnlyPrimary(procs[p].calls)
        ELSE IF o.fallbackProvider \in ProviderNames
        THEN /\ FallbackRetries(procs[p].calls)
             /\ procs[p].fallback \in {"ok", "failed"}
             /\ procs[p].fallback = "ok" => Returned(p, FromFallback)
             /\ procs[p].fallback = "failed" => Threw(p, e)
        ELSE /\ Threw(p, e)
             /\ procs[p].fallback = "none"
             /\ OnlyPrimary(procs[p].calls)

FailsInside(p, i) ==
    /\ MapHas(functions, procs[p].fnLog[i].name)
    /\ \/ procs[p].fnLog[i].arguments # ArgsJson
       \/ MapGet(functions, procs[p].fnLog[i].name) = "throw"
MessageOf(p, i) ==
    IF procs[p].fnLog[i].arguments # ArgsJson THEN SyntaxError ELSE FunctionError
\* _callAI has gone on after the i-th function request of p's ask
WentOn(p, i) == i < Len(procs[p].fnLog) \/ procs[p].pc # "callai_function"

\* C19: a registered function that throws, or whose arguments are no JSON
\* text, makes _handleFunctionCall return {error: message}; nothing is
\* thrown: the provider is called again with the messages of the call before,
\* the assistant message and the function message carrying that result, and
\* when the provider then answers with content, ask returns that content.
C19_FunctionFailureIsWrapped ==
    /\ \A i \in 1..Len(procs[1].fnLog) : FailsInside(1, i) =>
          /\ procs[1].fnLog[i].kind = "return"
          /\ procs[1].fnLog[i].value = [error |-> MessageOf(1, i)]
          /\ WentOn(1, i) =>
                /\ Len(procs[1].calls) > i
                /\ procs[1].calls[i + 1].to = "primary"
                /\ procs[1].calls[i + 1].messages =
                       procs[1].calls[i].messages
                       \o <<[role |-> "assistant", content |-> NullText],
                            [role |-> "function", name |-> procs[1].fnLog[i].name,
                             content |-> JsonStringify([error |-> MessageOf(1, i)])]>>
    /\ ( /\ AskDone(1) /\ procs[1].fnLog # <<>>
         /\ FailsInside(1, Len(procs[1].fnLog))
         /\ procs[1].provider = "ok" )
       => Returned(1, procs[1].answer)

C19_Witness ==
    /\ AskDone(1) /\ Len(procs[1].fnLog) = 2
    /\ procs[1].fnLog[1].name = "charge" /\ procs[1].fnLog[1].invoked
    /\ procs[1].fnLog[2].arguments = ArgsBroken /\ FailsInside(1, 2)
    /\ procs[1].provider = "ok"
    /\ Returned(1, <<"hello">>)

\* the last function the provider requested in p's ask is not registered
NotRegistered(p) ==
    /\ procs[p].fnLog # <<>>
    /\ ~MapHas(functions, Last(procs[p].fnLog).name)

\* C20: when the provider requests a function that is not registered, no
\* function is invoked for the request, the provider is not called again and
\* the error 'Function <name> not found' takes the path of a provider failure: ask throws it, unless
\* options.fallbackResponse is supplied, which ask then returns, or
\* options.fallbackProvider is, which is then called with the messages of the
\* call that requested the function.
C20_UnregisteredFunctionFails ==
    /\ NotRegistered(1) =>
          /\ ~Last(procs[1].fnLog).invoked
          /\ Last(procs[1].fnLog).kind = "throw"
          /\ procs[1].pc # "thread_calling"
          /\ Len(procs[1].calls) <= Len(procs[1].fnLog) + 1
    /\ (AskDone(1) /\ NotRegistered(1)) =>
          FallbackPath(1, FunctionNotFound(Last(procs[1].fnLog).name))

C20_Witness ==
    /\ AskDone(1) /\ NotRegistered(1)
    /\ Len(procs[1].fnLog) = 2 /\ procs[1].fnLog[1].invoked
    /\ procs[1].options.fallbackProvider = "undefined"
    /\ ~Truthy(procs[1].options.fallbackResponse)
    /\ Threw(1, FunctionNotFound("refund"))

C20_WitnessFallback ==
    /\ AskDone(1) /\ NotRegistered(1)
    /\ procs[1].options.fallbackProvider = "anthropic"
    /\ procs[1].fallback = "ok"
    /\ Returned(1, FromFallback)


(* releaseToAI on a chat in HUMAN_MODE (SpecSeq) *)
\* this step of p's releaseToAI runs from the deletion of the handoff entry
\* to the await of saveThread
ReleaseCommits(p) ==
    /\ procs'[p].op = "releaseToAI" /\ procs'[p].pc = "release_saving"
    /\ procs[p].pc # "release_saving" \/ procs'[p].id # procs[p].id
ThreadOf(c) == objs[MapGet(threads, c)]
SummaryMessage(s) == [role |-> "system", content |-> <<"Human operator summary: ">> \o s]
\* the snapshot stored for the chat is the thread's state
Persisted(c) ==
    /\ MapHas(storage, c)
    /\ MapGet(storage, c) = [chatId |-> c, context |-> ThreadOf(c).context,
                             history |-> ThreadOf(c).history,
                             lastUsed |-> ThreadOf(c).lastUsed]
\* a finished releaseToAI that found the chat in HUMAN_MODE returned true,
\* after calling the onRelease handler, if one is registered, once
ReleaseReturnsTrue(p) ==
    (Done(p) /\ procs[p].op = "releaseToAI" /\ procs[p].pre.human)
    => /\ Returned(p, TRUE)
       /\ ~isInHumanMode(procs[p].chatId)
       /\ Len(procs[p].notes) = IF HandlerRuns("onRelease") THEN 1 ELSE 0
       /\ \A i \in 1..Len(procs[p].notes) :
             procs[p].notes[i] =
                [handler |-> "onRelease",
                 args |-> [chatId |-> procs[p].chatId, summary |-> procs[p].summary,
                           metadata |-> procs[p].metadata]]

\* C21 as stated: releaseToAI on a chat in HUMAN_MODE, for every summary and
\* metadata, deletes the handoff entry, appends the system message that
\* contains the summary to the history, stores summary and metadata in the
\* context, persists the thread, calls onRelease and returns true.
C21_ReleaseRecordsEverySummary ==
    [][\A p \in Procs, c \in Chats :
        /\ (ReleaseCommits(p) /\ procs'[p].chatId = c) =>
                  /\ ~MapHas(handoffState', c)
                  /\ HistoryOfChat(c)' =
                        Append(HistoryOfChat(c), SummaryMessage(procs'[p].summary))
                  /\ "humanInteractionSummary" \in DOMAIN ThreadOf(c)'.context
                  /\ "releaseMetadata" \in DOMAIN ThreadOf(c)'.context
                  /\ Persisted(c)'
        /\ ReleaseReturnsTrue(p)'
      ]_vars

\* C21: releaseToAI on a chat in HUMAN_MODE deletes the handoff entry,
\* persists the thread, calls onRelease when it is registered and returns
\* true; a summary that is not empty is appended to the history in a system
\* message and stored in the context, an empty one (the default) leaves the
\* history and the context's summary as they were; metadata is stored in the
\* context when it has a key, and left as it was when it has none.
C21_ReleaseRecordsSummary ==
    [][\A p \in Procs, c \in Chats :
        /\ (ReleaseCommits(p) /\ procs'[p].chatId = c) =>
              LET s == procs'[p].summary
                  m == procs'[p].metadata
                  before == ThreadOf(c).context
                  after  == ThreadOf(c)'.context
              IN  /\ ~MapHas(handoffState', c)
                  /\ IF Truthy(s)
                     THEN /\ HistoryOfChat(c)' = Append(HistoryOfChat(c), SummaryMessage(s))
                          /\ "humanInteractionSummary" \in DOMAIN after
                          /\ after["humanInteractionSummary"] = s
                     ELSE /\ HistoryOfChat(c)' = HistoryOfChat(c)
                          /\ "humanInteractionSummary" \in DOMAIN after
                                <=> "humanInteractionSummary" \in DOMAIN before
                          /\ "humanInteractionSummary" \in DOMAIN after
                                => after["humanInteractionSummary"]
                                     = before["humanInteractionSummary"]
                  /\ IF DOMAIN m # {}
                     THEN /\ "releaseMetadata" \in DOMAIN after
                          /\ after["releaseMetadata"] = m
                     ELSE "releaseMetadata" \in DOMAIN after
                            <=> "releaseMetadata" \in DOMAIN before
                  /\ Persisted(c)'
        /\ ReleaseReturnsTrue(p)'
      ]_vars

C21_Witness ==
    /\ Done(1) /\ procs[1].op = "releaseToAI" /\ procs[1].pre.human
    /\ procs[1].summary = <<"solved">>
    /\ MapHas(threads, "c1")
    /\ Len(HistoryOfChat("c1")) >= 2
    /\ HistoryOfChat("c1")[Len(HistoryOfChat("c1"))] = SummaryMessage(<<"solved">>)
    /\ ThreadOf("c1").context["releaseMetadata"] = [ticketId |-> <<"12345">>]
    /\ Persisted("c1")
    /\ HandlerRuns("onRelease")
    /\ Returned(1, TRUE)

\* a release with the default summary and metadata has returned true
C21_WitnessDefaults ==
    /\ Done(1) /\ procs[1].op = "releaseToAI" /\ procs[1].pre.human
    /\ procs[1].summary = EmptyText /\ Returned(1, TRUE)


(* construction (SpecCtor) *)
NamesRegistered == adapter \in Adapters /\ config.provider \in ProviderNames

\* C22: an assistant whose storage provider name or AI provider name is not
\* registered is never constructed, and no call of it ever starts.
C22_UnregisteredNamesFailAtConstruction ==
    /\ config.status = "constructed" => NamesRegistered
    /\ (\E p \in Procs : procs[p].op # "none") => NamesRegistered

\* an ask of an assistant with an unregistered AI provider name has run up to
\* the Thread constructor and returned options.fallbackResponse
C22_AskRanWithUnregisteredProvider ==
    /\ config.provider = "gpt" /\ AskDone(1)
    /\ stats.requests = 1
    /\ Returned(1, Fallback)


(* middleware: code after next() (SpecMw) *)
\* C25: the code a middleware step has after its await of next() runs when
\* the provider has answered the ask, and finds the provider's answer in
\* context.response.
C25_PostProcessingSeesResponse ==
    \A p \in Procs :
        (procs[p].op = "ask" /\ procs[p].mwAfter # <<>>)
        => /\ procs[p].provider = "ok"
           /\ \A i \in 1..Len(procs[p].mwSeen) : procs[p].mwSeen[i] = procs[p].answer

\* an ask has returned the provider's answer, and the code after next() of
\* its two middleware steps had found null in context.response
C25_AfterCodeSawNull ==
    /\ AskDone(1) /\ procs[1].provider = "ok"
    /\ Returned(1, procs[1].answer)
    /\ procs[1].mwAfter = <<2, 1>>
    /\ procs[1].mwSeen = <<NullText, NullText>>


(* function calls and the history (SpecLoop) *)
\* p's ask is over: the provider requested functions, every request was
\* answered with a function result, and ask returned the provider's content
AnsweredAfterFunctions(p) ==
    /\ AskDone(p) /\ procs[p].fnLog # <<>>
    /\ \A i \in 1..Len(procs[p].fnLog) : procs[p].fnLog[i].kind = "return"
    /\ procs[p].provider = "ok" /\ procs[p].answer # NullText
    /\ Returned(p, procs[p].answer)

\* C26: after an ask in which the provider requested k functions, the
\* history of the thread, which is the history of its snapshot, ends with the
\* user entry, an assistant entry and a function entry for each request, and
\* the final assistant entry.
C26_FunctionEntriesInHistory ==
    AnsweredAfterFunctions(1) =>
        LET h == HistoryOfChat("c1")
            n == Len(h)
            k == Len(procs[1].fnLog)
        IN  /\ n >= 2 * k + 2
            /\ h[n].role = "assistant"
            /\ h[n - 2 * k - 1].role = "user"
            /\ \A j \in 1..k : /\ h[n - 2 * k - 2 + 2 * j].role = "assistant"
                                /\ h[n - 2 * k - 1 + 2 * j].role = "function"
            /\ MapHas(storage, "c1")
            /\ arrs[MapGet(storage, "c1").history] = h

\* after an ask with two function calls the history holds the user entry and
\* the final assistant entry only
C26_HistoryWithoutFunctionEntries ==
    /\ AnsweredAfterFunctions(1) /\ Len(procs[1].fnLog) = 2 /\ started = 1
    /\ HistoryOfChat("c1") = <<[role |-> "user", content |-> Plain],
                               [role |-> "assistant", content |-> <<"hello">>]>>


(* the fallback provider (SpecLoop) *)
FallbackCalls(p) == {i \in 1..Len(procs[p].calls) : procs[p].calls[i].to = "fallback"}

\* C27: in one ask the fallback provider is called at most once, whatever
\* the number of functions the provider requested before it failed and
\* whether or not the fallback provider fails.
C27_FallbackAtMostOnce ==
    \A p \in Procs : Cardinality(FallbackCalls(p)) <= 1

C27_Witness ==
    /\ AskDone(1) /\ procs[1].options.fallbackProvider = "anthropic"
    /\ Len(procs[1].fnLog) = 2
    /\ procs[1].provider = "failed" /\ procs[1].fallback = "failed"
    /\ FallbackCalls(1) = {4}
    /\ Threw(1, BackendError)


(* eviction (SpecLru) *)
\* this step removes the chat's thread from the working set
Evicts(c) == MapHas(threads, c) /\ ~MapHas(threads', c)
LastUsedOf(c) == objs[MapGet(threads, c)].lastUsed

\* C28: a step that removes a thread from the working set removes one whose
\* lastUsed is not greater than that of any thread that stays, it removes it
\* from a working set that holds maxThreads threads or more, and it leaves
\* the working set below maxThreads with _cleanupOldThreads over.
C28_EvictionIsLru ==
    [][\A c \in LruChats :
        Evicts(c) =>
            /\ Len(threads) >= config.maxThreads
            /\ Len(threads') = config.maxThreads - 1
            /\ \A d \in LruChats :
                  MapHas(threads', d) => LastUsedOf(c) <= LastUsedOf(d)
            /\ \A p \in Procs :
                  (procs'[p] # procs[p]) => procs'[p].pc = "createThread_cleaned"
      ]_vars

\* the thread of c1 has been evicted while an ask that had just used it was
\* waiting for the provider, and the thread of c2, used earlier, has stayed
C28_EvictedMostRecentlyUsed ==
    /\ ~MapHas(threads, "c1") /\ MapHas(threads, "c2")
    /\ procs[1].pc = "thread_calling" /\ procs[1].chatId = "c1"
    /\ objs[procs[1].thread].lastUsed > LastUsedOf("c2")

\* C29: a step that removes a thread from the working set is the
\* continuation of the awaited save in _cleanupOldThreads, the save has
\* succeeded and storage holds the thread's snapshot; when that save is
\* rejected, the step that follows leaves the working set as it is and
\* createThread rejects into the catch block of ask, no thread added.
C29_PersistBeforeDrop ==
    [][/\ \A c \in LruChats :
            Evicts(c) =>
                /\ procs[1].pc = "cleanup_saving" /\ ~procs[1].rejected
                /\ MapHas(storage, c) /\ MapHas(storage', c)
                /\ MapGet(storage, c) =
                      [chatId |-> c, context |-> objs[MapGet(threads, c)].context,
                       history |-> objs[MapGet(threads, c)].history,
                       lastUsed |-> LastUsedOf(c)]
       /\ (procs[1].pc = "cleanup_saving" /\ procs[1].rejected /\ procs'[1] # procs[1])
            => /\ threads' = threads
               /\ ~MapHas(threads', procs[1].chatId)
               /\ procs'[1].pc = "ask_catch"
               /\ procs'[1].error = StorageError
      ]_vars

\* an ask has failed on the save of the thread it wanted to evict: the
\* working set is still full and does not hold the chat of the ask
C29_Witness ==
    /\ AskDone(1) /\ Threw(1, StorageError)
    /\ Len(threads) = config.maxThreads
    /\ ~MapHas(threads, procs[1].chatId)
    /\ ~MapHas(storage, procs[1].chatId)


(* snapshots in storage (SpecKeep) *)
\* this step removes the chat's snapshot from storage
Removes(c) == MapHas(storage, c) /\ ~MapHas(storage', c)
\* this step is a call of deleteThread(c)
DeleteStep(c) == procs' = procs /\ started' = started + 1
                     /\ storage' = StorageDeleteThread(storage, c)
\* this step is the storage read of a createThread for c
LoadStep(c) == \E p \in Procs : /\ procs'[p].pc = "createThread_loading"
                                /\ procs[p].pc # "createThread_loading"
                                /\ procs'[p].chatId = c

\* C30 as stated: only a call of deleteThread removes a snapshot from
\* storage; no step of ask, handoffToHuman, releaseToAI, createThread or
\* _cleanupOldThreads and no storage read does.
C30_OnlyDeleteRemovesSnapshots ==
    [][\A c \in Chats : Removes(c) => DeleteStep(c)]_vars

\* C30: a snapshot is removed from storage only by a call of deleteThread, or
\* by the storage read of createThread for its chat when the snapshot is
\* older than the TTL; a read of a snapshot that is not older, and every
\* other step of ask, handoffToHuman, releaseToAI and _cleanupOldThreads,
\* leaves every snapshot in storage.
C30_SnapshotsStayUnlessExpired ==
    [][\A c \in Chats :
        Removes(c) => \/ DeleteStep(c)
                      \/ LoadStep(c) /\ StorageExpired(MapGet(storage, c))
      ]_vars

\* three asks succeeded: the thread of c1 was evicted by the ask for c2, its
\* snapshot was older than the TTL when the third ask read it, and the
\* thread started again without the first question
C30_Witness ==
    /\ AskDone(1) /\ procs[1].chatId = "c1" /\ procs[1].id = 3
    /\ stats = [requests |-> 3, errors |-> 0]
    /\ QuestionsOf("c1") = {3} /\ QuestionsOf("c2") = {2}
    /\ MapHas(storage, "c1") /\ MapHas(storage, "c2")


(* parseMessage (SpecParse) *)
\* parseMessage has returned, and what it returned
Parsed == parser.result # <<>>
ParseResult == parser.result[1]
\* the call found its template: the fields it validated against
TemplateFound == Parsed /\ (parser.template.byName =>
                                ParseResult.errors # <<TemplateNotFound(parser.template.name)>>)
FieldsUsed == IF parser.template.byName THEN MapGet(parser.templates, parser.template.name)
              ELSE parser.template.fields
\* the message was parsed against the order template
ParsedAsOrder(message) ==
    /\ TemplateFound /\ parser.message = message
    /\ parser.template \in {ByName(Name_order), ByDefinition(OrderTemplate)}
FieldIs(name, v) == MapHas(ParseResult.fields, name) /\ MapGet(ParseResult.fields, name) = v

\* C23 as stated: '!order item:pizza quantity:2 address:123 Main St' parsed
\* against the order template is valid, with command 'order', item 'pizza',
\* quantity 2, address '123 Main St' and no errors.
C23_OrderExampleParses ==
    ParsedAsOrder(OrderMessage)
        => /\ ParseResult.isValid /\ ParseResult.errors = <<>>
           /\ MapKeys(ParseResult.fields)
                = {Name_command, Name_item, Name_quantity, Name_address}
           /\ FieldIs(Name_command, Str(Name_order))
           /\ FieldIs(Name_item, Str(<<"p", "i", "z", "z", "a">>))
           /\ FieldIs(Name_quantity, Num(2))
           /\ FieldIs(Name_address, Str(<<"1", "2", "3", " ", "M", "a", "i", "n", " ", "S", "t">>))

\* what the code returns for it: the value of item runs on over the blank
\* and the next key, quantity is never set and the message is invalid
C23_ValueAbsorbedNextKey ==
    /\ ParsedAsOrder(OrderMessage)
    /\ ~ParseResult.isValid /\ ParseResult.errors = <<RequiredMissing(Name_quantity)>>
    /\ MapKeys(ParseResult.fields) = {Name_command, Name_item, Name_address}
    /\ FieldIs(Name_item, Str(<<"p", "i", "z", "z", "a", " ", "q", "u", "a", "n", "t", "i", "t", "y">>))
    /\ FieldIs(Name_address, Str(<<"1", "2", "3", " ", "M", "a", "i", "n", " ", "S", "t">>))

\* the checks of one field that the returned fields violate
Missing(def) == def.required /\ ~MapHas(ParseResult.fields, def.name)
WrongType(def) ==
    /\ MapHas(ParseResult.fields, def.name)
    /\ def.type \in {"number", "boolean", "array"}
    /\ MapGet(ParseResult.fields, def.name).is # def.type
PatternFails(def) ==
    /\ MapHas(ParseResult.fields, def.name) /\ def.pattern # "undefined"
    /\ ~PatternTest(def.pattern, StringOf(MapGet(ParseResult.fields, def.name)))
Violations ==
    {ic \in (1..Len(FieldsUsed)) \X {"required", "type", "pattern"} :
        CASE ic[2] = "required" -> Missing(FieldsUsed[ic[1]])
          [] ic[2] = "type" -> WrongType(FieldsUsed[ic[1]])
          [] ic[2] = "pattern" -> PatternFails(FieldsUsed[ic[1]])}
Reported(e) == \E k \in 1..Len(ParseResult.errors) : ParseResult.errors[k] = e
FieldIndex(name) == CHOOSE i \in 1..Len(FieldsUsed) : FieldsUsed[i].name = name

\* C24: parseMessage returns (it does not throw) with isValid true exactly
\* when errors is empty; when the template was found, errors holds one entry
\* for every violated check of every field - a missing required field, a
\* value of the wrong type, a value that does not match the pattern - and
\* nothing else, the entries of an earlier declared field first; for
\* '!order item:pizza' against the order template errors is exactly
\* ['Required field "quantity" is missing'] and isValid is false.
C24_ValidationCollectsAllErrors ==
    Parsed =>
        /\ ParseResult.kind = "return"
        /\ ParseResult.isValid <=> (ParseResult.errors = <<>>)
        /\ TemplateFound =>
            /\ \A i \in 1..Len(FieldsUsed) :
                LET def == FieldsUsed[i]
                IN  /\ Missing(def) <=> Reported(RequiredMissing(def.name))
                    /\ WrongType(def) <=> \E what \in {"a number", "a boolean", "an array"} :
                                              Reported(ShouldBe(def.name, what))
                    /\ PatternFails(def) <=> Reported(PatternMismatch(def.name, def.pattern))
            /\ Len(ParseResult.errors) = Cardinality(Violations)
            /\ \A j, k \in 1..Len(ParseResult.errors) :
                    j < k => FieldIndex(ParseResult.errors[j][2])
                                <= FieldIndex(ParseResult.errors[k][2])
        /\ ParsedAsOrder(OrderItemOnly)
            => /\ ~ParseResult.isValid
               /\ ParseResult.errors = <<RequiredMissing(Name_quantity)>>

\* '!order item:pizza' was parsed against the order template
C24_Witness ==
    /\ ParsedAsOrder(OrderItemOnly)
    /\ FieldIs(Name_command, Str(Name_order)) /\ FieldIs(Name_item, Str(<<"p", "i", "z", "z", "a">>))
    /\ ParseResult.errors = <<RequiredMissing(Name_quantity)>>

\* '!a:a' fails the type check of command and the pattern check of a: both
\* are reported, in declaration order
C24_WitnessTwoErrors ==
    /\ TemplateFound /\ parser.message = <<"!", "a", ":", "a">>
    /\ ParseResult.errors = <<ShouldBe(Name_command, "a number"),
                              PatternMismatch(Name_a, DigitsPattern)>>


\* C38 as stated: when the value given for a field of type number does not
\* parse as a number (it is coerced to NaN), errors holds 'Field "<name>"
\* should be a number' and isValid is false.
C38_NaNFailsTypeCheck ==
    TemplateFound =>
        \A i \in 1..Len(FieldsUsed) :
            LET def == FieldsUsed[i]
            IN  (/\ def.type = "number" /\ MapHas(ParseResult.fields, def.name)
                 /\ MapGet(ParseResult.fields, def.name).is = "number"
                 /\ MapGet(ParseResult.fields, def.name).nan)
                    => /\ Reported(ShouldBe(def.name, "a number"))
                       /\ ~ParseResult.isValid

\* what the code returns for '!a:a' when a is a number: a is NaN, typeof NaN
\* is 'number', no error is reported and the message is valid
C38_NaNPassesTypeCheck ==
    /\ TemplateFound /\ parser.message = <<"!", "a", ":", "a">>
    /\ parser.template = ByDefinition(<<Field(Name_command, "string", TRUE, "undefined"),
                                         Field(Name_a, "number", TRUE, "undefined")>>)
    /\ FieldIs(Name_a, NaN)
    /\ ParseResult.isValid /\ ParseResult.errors = <<>>


(* next() called more than once (SpecNext) *)
\* C37: in every ask the steps that were invoked are steps 1, 2, ... in
\* registration order, each one time: a step that calls next() again starts
\* the first step that has not run yet (or nothing when all have run), and
\* no step runs a second time.
C37_StepsRunAtMostOnce ==
    \A p \in Procs :
        procs[p].op = "ask"
            => /\ procs[p].mwRan = UpTo(Len(procs[p].mwRan))
               /\ Len(procs[p].mwRan) <= Len(middleware)

\* the first step awaited next() twice: the first call ran step 2, which
\* returned without calling next(), and the second call ran step 3
C37_Witness ==
    /\ AskDone(1) /\ middleware = <<"twice", "short", "pass">>
    /\ procs[1].mwRan = <<1, 2, 3>> /\ procs[1].mwAfter = <<3, 1>>
    /\ procs[1].result.kind = "return" /\ procs[1].result.value = BlockedResponse


(* the depth of the generation loop (SpecLoop) *)
\* the provider answered every call of p's ask, the last time with content
\* and before that with requests for registered functions
AnsweredEveryCall(p) ==
    /\ AskDone(p) /\ procs[p].backendCalls > 0
    /\ OnlyPrimary(procs[p].calls)
    /\ procs[p].provider = "ok" /\ procs[p].answer # NullText
    /\ \A i \in 1..Len(procs[p].fnLog) : MapHas(functions, procs[p].fnLog[i].name)
\* no call of p's ask failed and no requested function was missing
NothingFailed(p) ==
    /\ procs[p].backendCalls > 0
    /\ OnlyPrimary(procs[p].calls) /\ procs[p].provider # "failed"
    /\ \A i \in 1..Len(procs[p].fnLog) : procs[p].fnLog[i].kind = "return"
Invocations(p) == {i \in 1..Len(procs[p].fnLog) : procs[p].fnLog[i].invoked}
\* ask returned, and did so after the provider answered with content
ReturnsAfterContent(p) ==
    (AskDone(p) /\ procs[p].result.kind = "return" /\ NothingFailed(p))
        => /\ procs[p].provider = "ok" /\ procs[p].answer # NullText
           /\ Returned(p, procs[p].answer)

C39_RequestWithoutInvocation ==
    /\ AnsweredEveryCall(1) /\ Len(procs[1].fnLog) = 1
    /\ Invocations(1) = {} /\ procs[1].backendCalls = 2
    /\ Returned(1, <<"hello">>)


(* the mode in the thread context and in the handoff set (SpecSeq) *)
\* the context of the chat's thread records a handoffState with isHumanMode
ContextSaysHuman(c) ==
    /\ MapHas(threads, c)
    /\ "handoffState" \in DOMAIN ThreadOf(c).context
    /\ ThreadOf(c).context["handoffState"].isHumanMode

\* C31 as stated: the context of a chat's thread records a handoffState with
\* isHumanMode true only if the chat has an entry in the handoff set of the
\* assistant.
C31_ContextAgreesWithHandoffSet ==
    \A c \in Chats : ContextSaysHuman(c) => MapHas(handoffState, c)

\* after handoffToHuman and releaseToAI: releaseToAI returned true and
\* deleted the entry of the chat, and the context of its thread, in memory
\* and in its snapshot, still records isHumanMode true
C31_ContextKeptHumanMode ==
    /\ Done(1) /\ procs[1].op = "releaseToAI" /\ Returned(1, TRUE)
    /\ ~MapHas(handoffState, "c1") /\ ~isInHumanMode("c1")
    /\ ContextSaysHuman("c1")
    /\ Persisted("c1")


(* restart (SpecRestart) *)
\* C32: after a restart over the same storage, and until a new handoff, no
\* chat is in human mode, whatever its mode was before: isInHumanMode is
\* false, the handoff set has no entry, no ask is refused for human mode,
\* releaseToAI returns false - also after the thread of a chat that was in
\* human mode has been loaded with a context that still records the handoff.
C32_RestartRevertsToAiMode ==
    config.restarts > 0 =>
        /\ \A c \in Chats : ~isInHumanMode(c) /\ ~MapHas(handoffState, c)
        /\ \A p \in Procs :
              /\ AskDone(p) => ~Threw(p, HumanModeError)
              /\ (Done(p) /\ procs[p].op = "releaseToAI") => Returned(p, FALSE)

\* c1 was in human mode at the restart; the ask for it after the restart
\* loaded its snapshot and returned the provider's answer, and the context
\* of the loaded thread still records isHumanMode
C32_Witness ==
    /\ config.restarts = 1 /\ "c1" \in config.humanBefore
    /\ AskDone(1) /\ procs[1].chatId = "c1" /\ Returned(1, <<"hello">>)
    /\ ContextSaysHuman("c1")
    /\ ~isInHumanMode("c1")


(* overlapping asks on one chat (SpecAskRace) *)
\* the history of the chat's snapshot in storage
PersistedHistory(c) == arrs[MapGet(storage, c).history]
HasUserEntry(h, prompt) == \E i \in 1..Len(h) : h[i] = [role |-> "user", content |-> prompt]
\* p's ask returned the provider's answer
Answered(p) == AskDone(p) /\ procs[p].provider = "ok" /\ Returned(p, procs[p].answer)

\* C33: the save at the end of an ask stores the history of the thread that
\* ask worked on, with its own user entry and, last, its own assistant
\* entry, whatever another ask on the chat has saved before: the last save
\* wins.  (That the entries of the other ask can be missing from it is the
\* state C33_Witness.)
C33_LastSaveWins ==
    [][\A p \in Procs :
        (procs[p].pc = "thread_calling" /\ procs'[p].pc = "thread_saving")
        => /\ MapHas(storage', "c1")
           /\ HasUserEntry(arrs'[MapGet(storage', "c1").history], procs'[p].message)
           /\ arrs'[MapGet(storage', "c1").history]
                    [Len(arrs'[MapGet(storage', "c1").history])]
                = [role |-> "assistant", content |-> procs'[p].response]
      ]_vars

\* two overlapping asks on c1 both returned the provider's answer, and the
\* persisted history holds the user and assistant entry of one of them only
C33_Witness ==
    /\ started = 2 /\ Answered(1) /\ Answered(2)
    /\ procs[1].chatId = "c1" /\ procs[2].chatId = "c1"
    /\ MapHas(storage, "c1") /\ Len(PersistedHistory("c1")) = 2
    /\ \E p \in {1, 2} : ~HasUserEntry(PersistedHistory("c1"), procs[p].message)


(* eviction and asks in flight (SpecLruRace) *)
\* p's ask has appended its user entry to the thread of its chat and has not
\* saved the thread yet: Thread.ask waits for the provider
InFlightOn(p, c) ==
    /\ procs[p].op = "ask" /\ procs[p].pc = "thread_calling"
    /\ procs[p].chatId = c
    /\ MapHas(threads, c) /\ MapGet(threads, c) = procs[p].thread

\* C34: no step removes a thread from the working set while an ask that has
\* appended its user entry to that thread has not yet saved it.
C34_NoEvictionDuringAsk ==
    [][\A c \in LruChats, p \in Procs : InFlightOn(p, c) => ~Evicts(c)]_vars

\* the ask on c1 waits for the provider on a thread that is no longer in the
\* working set: the createThread of another chat has evicted it
C34_EvictedDuringAsk ==
    /\ procs[1].op = "ask" /\ procs[1].pc = "thread_calling"
    /\ procs[1].chatId = "c1" /\ ~MapHas(threads, "c1")
    /\ Len(threads) > 0


(* overlapping releases of one HUMAN_MODE period (SpecRelease) *)
\* p's releaseToAI of c1 has returned true
Released(p) ==
    /\ Done(p) /\ procs[p].op = "releaseToAI" /\ procs[p].chatId = "c1"
    /\ Returned(p, TRUE)
\* the number of times p's call has invoked the handler h
Invoked(p, h) == Cardinality({i \in 1..Len(procs[p].notes) : procs[p].notes[i].handler = h})

\* C35: of the releaseToAI calls that follow one handoff of c1, at most one
\* returns true, and onRelease is invoked at most once in all.
C35_OneReleasePerPeriod ==
    \A p, q \in Procs :
        p # q => /\ ~(Released(p) /\ Released(q))
                 /\ (procs[p].op = "releaseToAI" /\ procs[q].op = "releaseToAI")
                        => Invoked(p, "onRelease") + Invoked(q, "onRelease") <= 1

\* both callers released c1 after its single handoff, both got true and the
\* onRelease handler ran for each; the thread of c1 had been evicted
C35_ReleasedTwice ==
    /\ Released(1) /\ Released(2)
    /\ procs[1].pre.human /\ procs[2].pre.human
    /\ Invoked(1, "onRelease") = 1 /\ Invoked(2, "onRelease") = 1

\* the thread of c1 is in the working set: the second of two releases
\* returned false
C35_ReleasedOnceInWorkingSet ==
    /\ \E p, q \in Procs : p # q /\ Released(p) /\ Done(q)
                             /\ procs[q].op = "releaseToAI" /\ Returned(q, FALSE)
    /\ ~MapHas(handoffState, "c2")


(* handoff and release over failing storage (SpecOutage) *)
\* p's handoffToHuman or releaseToAI has rejected with the storage error
RejectedByStorage(p) ==
    /\ Done(p) /\ procs[p].op \in {"handoffToHuman", "releaseToAI"}
    /\ Threw(p, StorageError)

\* C36: when handoffToHuman or releaseToAI rejects because storage failed,
\* the chat is in the mode it was in when the call started.
C36_RejectedCallKeepsMode ==
    \A p \in Procs :
        RejectedByStorage(p) => isInHumanMode(procs[p].chatId) = procs[p].pre.human

\* handoffToHuman rejected on the save of the thread and the chat, in
\* AI_MODE before the call, is in HUMAN_MODE
C36_FailedHandoffChangedMode ==
    /\ RejectedByStorage(1) /\ procs[1].op = "handoffToHuman"
    /\ ~procs[1].pre.human /\ isInHumanMode(procs[1].chatId)
    /\ MapHas(threads, procs[1].chatId)

\* releaseToAI rejected on the save of the thread and the chat, in
\* HUMAN_MODE before the call, is in AI_MODE
C36_FailedReleaseChangedMode ==
    /\ RejectedByStorage(1) /\ procs[1].op = "releaseToAI"
    /\ procs[1].pre.human /\ ~isInHumanMode(procs[1].chatId)

\* the call rejected on the load of the thread: the mode is unchanged
C36_FailedLoadKeptMode ==
    /\ RejectedByStorage(1) /\ ~MapHas(threads, procs[1].chatId)
    /\ isInHumanMode(procs[1].chatId) = procs[1].pre.human

====
